---- MODULE Spec2Model ----
(***************************************************************************)
(* Model of the Electron main process of the archive manager:              *)
(*   src/src/electron/main.ts      bootstrap and the seven IPC handlers    *)
(*   src/src/electron/database.ts  ArchiveDatabase (SQLCipher store)       *)
(*   src/unnamed/part_004          SessionStore (sessions.ts)              *)
(* Every handler is an async function: it runs to its next `await`, and    *)
(* the awaited SQL statement executes later, so statements of different    *)
(* requests interleave.  One action of the model is one handler segment:   *)
(* the execution of the awaited statement followed by the synchronous code *)
(* up to the next await.                                                   *)
(***************************************************************************)
EXTENDS Integers, Sequences, FiniteSets, TLC

\* ---------------------------------------------------------------- bounds
MaxUnits == 2          \* storage units the ledger may hold
MaxMovements == 2      \* movements the log may hold
MaxTokens == 2         \* sessions.create calls over the whole run
MaxClock == 2          \* last tick of the wall clock
MaxBoots == 2          \* process starts
TicksPerSec == 2       \* clock ticks (milliseconds) in one second
SecsPerDay == 1        \* seconds in one day
DefaultLimit == 25     \* listMovements(limit = 25)
MinLoginLen == 3       \* loginSchema: login min(3)
MinPasswordLen == 4    \* loginSchema: password min(4)
MinLabelLen == 2       \* storageSchema: label min(2)
MinActionLen == 3      \* movementSchema: action min(3)
BcryptCost == 10       \* bcrypt.hash(password, 10)

TicksPerDay == TicksPerSec * SecsPerDay

Reqs == {"r1", "r2"}   \* requests that may be in flight at the same time
NULL == "NULL"         \* SQL NULL / JS null in a text column

\* ---------------------------------------------------------------- text
\* Text the code inspects (trim, toLowerCase, includes, split, LIKE) is a
\* sequence of one-character strings.
RECURSIVE DropLeft(_)
DropLeft(s) == IF s # <<>> /\ Head(s) = " " THEN DropLeft(Tail(s)) ELSE s

RECURSIVE DropRight(_)
DropRight(s) ==
    IF s # <<>> /\ s[Len(s)] = " " THEN DropRight(SubSeq(s, 1, Len(s) - 1)) ELSE s

\* String.prototype.trim
trim(s) == DropRight(DropLeft(s))

LowerChar(c) ==
    CASE c = "A" -> "a"
      [] c = "D" -> "d"
      [] c = "M" -> "m"
      [] c = "N" -> "n"
      [] c = "X" -> "x"
      [] OTHER -> c

\* String.prototype.toLowerCase and SQL LOWER()
toLowerCase(s) == [i \in 1..Len(s) |-> LowerChar(s[i])]

\* String.prototype.includes('@')
includesAt(s) == \E i \in 1..Len(s) : s[i] = "@"

\* s.split('@')[0]
splitAt0(s) ==
    IF includesAt(s)
    THEN SubSeq(s, 1, (CHOOSE i \in 1..Len(s) : s[i] = "@" /\ \A j \in 1..(i - 1) : s[j] # "@") - 1)
    ELSE s

\* SQL `str LIKE pat`: % matches any run, _ any one character, letters
\* compare case-insensitively.
RECURSIVE Like(_, _)
Like(str, pat) ==
    IF pat = <<>> THEN str = <<>>
    ELSE IF Head(pat) = "%"
         THEN \E k \in 0..Len(str) : Like(SubSeq(str, k + 1, Len(str)), Tail(pat))
    ELSE IF str = <<>> THEN FALSE
    ELSE IF Head(pat) = "_" THEN Like(Tail(str), Tail(pat))
    ELSE LowerChar(Head(str)) = LowerChar(Head(pat)) /\ Like(Tail(str), Tail(pat))

\* ---------------------------------------------------------------- clock
\* created_at is new Date().toISOString(): UTC, millisecond precision.  The
\* tick number stands for that string (ISO strings of one format order as
\* their instants do).
\* SQLite datetime(created_at): the instant cut to whole seconds.
datetime(t) == t \div TicksPerSec
\* SQLite DATE(created_at) and DATE('now'): the UTC calendar day.
DATE(t) == t \div TicksPerDay
\* The calendar day on the host's wall clock, tz ticks east of UTC.
LocalDate(t, offset) == (t + offset) \div TicksPerDay

\* ---------------------------------------------------------------- credentials
\* bcrypt.hash(password, cost): a salted digest.  The salt is drawn fresh on
\* every call; the digest is a function of salt and password that compare
\* recomputes from the salt kept in the hash.
bcryptHash(password, salt) ==
    [cost |-> BcryptCost, salt |-> salt, digest |-> <<salt, password>>]

\* bcrypt.compare(password, hash)
bcryptCompare(password, hash) == hash.digest = <<hash.salt, password>>

\* process.env.ARCHIVE_DEFAULT_ADMIN_LOGIN ?? 'admin' and
\* process.env.ARCHIVE_DEFAULT_ADMIN_PASSWORD ?? 'admin'
defaultLogin == <<"a", "d", "m", "i", "n">>
defaultPassword == <<"a", "d", "m", "i", "n">>

\* `SELECT ... LIMIT 1` without ORDER BY: SQL leaves the row that is
\* returned unspecified when several match, so every match is an outcome.
\* The result is <<>> (no row) or <<row>>; matching holds the positions of
\* the rows the WHERE clause accepts.
selectOne(rows, matching) ==
    IF matching = {} THEN {<<>>} ELSE {<<rows[i]>> : i \in matching}

\* The three CREATE TABLE IF NOT EXISTS statements: a table that exists is
\* left as it is, a missing one is created with the current columns.
CurrentUserCols == {"id", "name", "login", "password_hash", "role", "created_at"}
LegacyUserCols == {"id", "name", "email", "password_hash", "role", "created_at"}

migrations(sch) ==
    [users |-> IF sch.users = {} THEN CurrentUserCols ELSE sch.users,
     storage_units |-> TRUE,
     movements |-> TRUE]

\* A repair that renames whichever of the two columns it finds alone.
ensureLoginColumn_toggle(sch) ==
    IF "login" \notin sch.users /\ "email" \in sch.users
    THEN [sch EXCEPT !.users = (sch.users \ {"email"}) \cup {"login"}]
    ELSE IF "login" \in sch.users /\ "email" \notin sch.users
    THEN [sch EXCEPT !.users = (sch.users \ {"login"}) \cup {"email"}]
    ELSE sch

\* ensureLoginColumn: rename email to login when login is missing.
ensureLoginColumn(sch) ==
    IF "login" \notin sch.users /\ "email" \in sch.users
    THEN [sch EXCEPT !.users = (sch.users \ {"email"}) \cup {"login"}]
    ELSE sch

\* A migration pass that recreates the movements table instead of keeping
\* the one that exists (DROP TABLE + CREATE TABLE).
migrate_recreate(st) ==
    [st EXCEPT !.schema = ensureLoginColumn(migrations(st.schema)), !.movements = <<>>]

\* ArchiveDatabase.migrate: the store [schema, users, units, movements]
\* after it.  The rows of every table are kept: no statement of the pass
\* deletes or rewrites a row.
migrate(st) == [st EXCEPT !.schema = ensureLoginColumn(migrations(st.schema))]

\* ArchiveDatabase.ensureDefaultAdmin: the set of outcomes [ok, users].
\* ok = FALSE is the UPDATE failing on the UNIQUE(login) constraint.
ensureDefaultAdmin(us, login, password, salt) ==
    LET normalized == toLowerCase(trim(login))
        pattern == normalized \o <<"@", "%">>
        Found(u) == toLowerCase(u.login) = normalized \/ Like(toLowerCase(u.login), pattern)
        hash == bcryptHash(password, salt)
    IN  { IF existing = <<>>
          THEN [ok |-> TRUE,
                users |-> Append(us, [id |-> Len(us) + 1, name |-> "Administrador",
                                      login |-> normalized, password_hash |-> hash,
                                      role |-> "admin"])]
          ELSE IF \E i \in 1..Len(us) : us[i].id # existing[1].id /\ us[i].login = normalized
               THEN [ok |-> FALSE, users |-> us]
               ELSE [ok |-> TRUE,
                     users |-> [i \in 1..Len(us) |->
                                  IF us[i].id = existing[1].id
                                  THEN [us[i] EXCEPT !.login = normalized, !.password_hash = hash]
                                  ELSE us[i]]]
          : existing \in selectOne(us, {i \in 1..Len(us) : Found(us[i])}) }

\* verifyLogin, the three SELECTs: the rows `user` may hold after them,
\* each <<>> (undefined) or <<row>>.  A later SELECT runs only while user
\* is undefined.
findUser(us, normalized) ==
    LET base == IF includesAt(normalized) THEN splitAt0(normalized) ELSE normalized
        Exact(u) == toLowerCase(u.login) = normalized
        Base(u) == toLowerCase(u.login) = base
        Prefix(u) == Like(toLowerCase(u.login), base \o <<"@", "%">>)
        second(user1) ==
            IF user1 = <<>> /\ base # normalized
            THEN selectOne(us, {i \in 1..Len(us) : Base(us[i])}) ELSE {user1}
        third(user2) ==
            IF user2 = <<>> /\ ~includesAt(normalized)
            THEN selectOne(us, {i \in 1..Len(us) : Prefix(us[i])}) ELSE {user2}
    IN  UNION { UNION { third(u2) : u2 \in second(u1) }
                : u1 \in selectOne(us, {i \in 1..Len(us) : Exact(us[i])}) }

\* verifyLogin that returns the profile of the row found without
\* comparing the password.
verifyLogin_unchecked(us, login, password) ==
    LET normalized == toLowerCase(trim(login))
        result(user) ==
            IF user = <<>> THEN <<>>
            ELSE <<[id |-> user[1].id, name |-> user[1].name,
                    login |-> user[1].login, role |-> user[1].role]>>
    IN  IF normalized = <<>> THEN {<<>>}
        ELSE {result(user) : user \in findUser(us, normalized)}

\* verifyLogin that returns the row it found as it is.
verifyLogin_row(us, login, password) ==
    LET normalized == toLowerCase(trim(login))
        result(user) ==
            IF user = <<>> THEN <<>>
            ELSE IF ~bcryptCompare(password, user[1].password_hash) THEN <<>>
            ELSE user
    IN  IF normalized = <<>> THEN {<<>>}
        ELSE {result(user) : user \in findUser(us, normalized)}

\* ArchiveDatabase.verifyLogin: the set of possible results, each <<>>
\* (null) or <<profile>>.
verifyLogin(us, login, password) ==
    LET normalized == toLowerCase(trim(login))
        result(user) ==
            IF user = <<>> THEN <<>>
            ELSE IF ~bcryptCompare(password, user[1].password_hash) THEN <<>>
            ELSE <<[id |-> user[1].id, name |-> user[1].name,
                    login |-> user[1].login, role |-> user[1].role]>>
    IN  IF normalized = <<>> THEN {<<>>}
        ELSE {result(user) : user \in findUser(us, normalized)}

\* ---------------------------------------------------------------- ledger and log
storageTypes == {"PASTA", "ENVELOPE", "GAVETEIRO", "CAIXA"}

\* A metadata object is a sequence of members [key, kind, v]: kind is
\* "number" (v is the number), "NaN", "undefined" or "null" (v is 0).  A
\* JSON text is a sequence of members [key, literal].
Digits == <<"0", "1", "2", "3", "4", "5", "6", "7", "8", "9">>

\* JSON.stringify of an object: a member whose value is undefined is left
\* out, NaN is written as null, a number as its digits.
JSONstringify(object) ==
    LET written == SelectSeq(object, LAMBDA m : m.kind # "undefined")
    IN  [i \in 1..Len(written) |->
           [key |-> written[i].key,
            literal |-> IF written[i].kind = "number"
                        THEN Digits[written[i].v + 1] ELSE "null"]]

\* JSON.parse of a text JSON.stringify wrote.
JSONparse(text) ==
    [i \in 1..Len(text) |->
       IF text[i].literal = "null"
       THEN [key |-> text[i].key, kind |-> "null", v |-> 0]
       ELSE [key |-> text[i].key, kind |-> "number",
             v |-> (CHOOSE n \in 1..Len(Digits) : Digits[n] = text[i].literal) - 1]]

\* payload.metadata ? JSON.stringify(payload.metadata) : null.  The value
\* is <<>> (undefined) or <<object>>; every object is truthy, {} included.
\* The column is <<>> (NULL) or <<text>>.
stringifyMetadata(metadata) ==
    IF metadata = <<>> THEN <<>> ELSE <<JSONstringify(metadata[1])>>

\* An INSERT that binds payload.label as it came, without trim().
insertStorageUnit_untrimmed(us, payload, now) ==
    Append(us, [id |-> Len(us) + 1,
                label |-> payload.label,
                type |-> payload.type,
                section |-> payload.section,
                capacity |-> payload.capacity,
                occupancy |-> 0,
                metadata |-> stringifyMetadata(payload.metadata),
                created_at |-> now,
                updated_at |-> now])

\* An INSERT that takes occupancy from the payload's capacity.
insertStorageUnit_filled(us, payload, now) ==
    Append(us, [id |-> Len(us) + 1,
                label |-> trim(payload.label),
                type |-> payload.type,
                section |-> payload.section,
                capacity |-> payload.capacity,
                occupancy |-> payload.capacity,
                metadata |-> stringifyMetadata(payload.metadata),
                created_at |-> now,
                updated_at |-> now])

\* createStorageUnit, the INSERT: the ledger after it.  AUTOINCREMENT ids
\* are 1, 2, ... because no row is ever deleted.
insertStorageUnit(us, payload, now) ==
    Append(us, [id |-> Len(us) + 1,
                label |-> trim(payload.label),
                type |-> payload.type,
                section |-> payload.section,
                capacity |-> payload.capacity,
                occupancy |-> 0,
                metadata |-> stringifyMetadata(payload.metadata),
                created_at |-> now,
                updated_at |-> now])

\* An INSERT whose positional parameters note and actor are swapped.
insertMovement_swapped(ms, payload, now) ==
    Append(ms, [id |-> Len(ms) + 1,
                reference |-> payload.reference,
                item_label |-> payload.item_label,
                from_unit |-> payload.from_unit,
                to_unit |-> payload.to_unit,
                action |-> payload.action,
                note |-> payload.actor,
                actor |-> payload.note,
                created_at |-> now])

\* recordMovement, the INSERT: the log after it.
insertMovement(ms, payload, now) ==
    Append(ms, [id |-> Len(ms) + 1,
                reference |-> payload.reference,
                item_label |-> payload.item_label,
                from_unit |-> payload.from_unit,
                to_unit |-> payload.to_unit,
                action |-> payload.action,
                note |-> payload.note,
                actor |-> payload.actor,
                created_at |-> now])

\* `SELECT * FROM t WHERE id = ?`: <<>> or <<row>>.
selectById(rows, id) ==
    IF id \in 1..Len(rows) THEN <<rows[id]>> ELSE <<>>

\* The orders in which `ORDER BY datetime(created_at) DESC` may return the
\* rows: every arrangement with non-increasing datetime; rows of one second
\* tie, and SQL leaves the order of ties unspecified.
orderByDatetimeDesc(ms) ==
    LET n == Len(ms)
        arrangements == {f \in [1..n -> 1..n] : \A i, j \in 1..n : i # j => f[i] # f[j]}
    IN  { [i \in 1..n |-> ms[f[i]]] :
          f \in {g \in arrangements :
                   \A i, j \in 1..n :
                     i < j => datetime(ms[g[i]].created_at) >= datetime(ms[g[j]].created_at)} }

\* LIMIT n
limitRows(rows, n) == SubSeq(rows, 1, IF Len(rows) < n THEN Len(rows) ELSE n)

\* ArchiveDatabase.listMovements(limit): the possible results.
listMovements(ms, limit) == {limitRows(rows, limit) : rows \in orderByDatetimeDesc(ms)}

\* snapshot, first query and the template loop: the count of each type.
countersTemplate_skipLast(us) ==
    [ty \in storageTypes |->
       Cardinality({i \in 1..(Len(us) - 1) : us[i].type = ty})]

countersTemplate(us) ==
    [ty \in storageTypes |-> Cardinality({i \in 1..Len(us) : us[i].type = ty})]

\* Object.values(template).reduce((acc, value) => acc + value, 0)
totalOf(template) ==
    template["PASTA"] + template["ENVELOPE"] + template["GAVETEIRO"] + template["CAIXA"]

\* snapshot, second query, were it to miss the row inserted last.
countToday_skipLast(ms, now) ==
    Cardinality({i \in 1..(Len(ms) - 1) : DATE(ms[i].created_at) = DATE(now)})

\* snapshot, second query: COUNT(1) WHERE DATE(created_at) = DATE('now').
countToday(ms, now) ==
    Cardinality({i \in 1..Len(ms) : DATE(ms[i].created_at) = DATE(now)})

\* snapshot, third query: ORDER BY datetime(created_at) DESC LIMIT 1, the
\* possible results, each <<>> or <<row>>.
selectLastMovement(ms) == {limitRows(rows, 1) : rows \in orderByDatetimeDesc(ms)}

\* ---------------------------------------------------------------- sessions
\* SessionStore.get: <<>> (undefined) or <<session>>.  Token 0 stands for
\* a falsy token.
sessions_get_lax(table, token) ==
    IF token \in DOMAIN table THEN <<table[token]>>
    ELSE <<[token |-> token,
            profile |-> [id |-> 0, name |-> "guest", login |-> <<>>, role |-> "admin"]]>>

sessions_get(table, token) ==
    IF token = 0 THEN <<>>
    ELSE IF token \in DOMAIN table THEN <<table[token]>> ELSE <<>>

\* SessionStore.create, were it to keep one session only.
sessions_create_single(table, token, profile) ==
    [t \in {token} |-> [token |-> token, profile |-> profile]]

\* SessionStore.create: the table with the new session.  issuedAt is
\* written and never read by any code; the model leaves it out.
sessions_create(table, token, profile) ==
    [t \in DOMAIN table \cup {token} |->
       IF t = token THEN [token |-> token, profile |-> profile] ELSE table[t]]

\* SessionStore.revoke, were it to clear the table as revokeAll does.
sessions_revoke_all(table, token) == [t \in {} |-> table[t]]

\* SessionStore.revoke
sessions_revoke(table, token) == [t \in DOMAIN table \ {token} |-> table[t]]

\* ---------------------------------------------------------------- validation
\* The length of the text values the payloads of the model carry.
length(s) ==
    CASE s = "ok" -> 2
      [] s = "A" -> 1
      [] s = "Retirada" -> 8
      [] s = "Devolucao" -> 9
      [] s = "Sala 2" -> 6
      [] s = "conferido" -> 9
      [] s = "Ana" -> 3
      [] s = "Administrador" -> 13
      [] OTHER -> 0

\* tokenSchema: z.string().min(10).  Tokens are UUIDs, 36 characters; token
\* 0 stands for every value the schema rejects.
tokenSchema(token) == token # 0

\* loginSchema
loginSchema(data) ==
    Len(data.login) >= MinLoginLen /\ Len(data.password) >= MinPasswordLen

\* storageSchema.safeParse: <<>> when a field is rejected, else <<data>>
\* with the capacity default applied.  capacity is <<>> (undefined) or
\* <<number>>; section is NULL (undefined) or a text.
storageSchema(data) ==
    IF /\ Len(data.label) >= MinLabelLen
       /\ data.type \in storageTypes
       /\ (data.section = NULL \/ length(data.section) >= 2)
       /\ (data.capacity = <<>> \/ data.capacity[1] >= 0)
    THEN <<[label |-> data.label, type |-> data.type, section |-> data.section,
            capacity |-> IF data.capacity = <<>> THEN 0 ELSE data.capacity[1],
            metadata |-> data.metadata]>>
    ELSE <<>>

\* movementSchema.safeParse: <<>> when action is rejected, else <<data>>
\* holding the six declared keys only (z.object strips unknown keys).
movementSchema(data) ==
    IF length(data.action) >= MinActionLen
    THEN <<[action |-> data.action, reference |-> data.reference,
            item_label |-> data.item_label, from_unit |-> data.from_unit,
            to_unit |-> data.to_unit, note |-> data.note]>>
    ELSE <<>>

\* { ...parsed.data.data, actor: session.profile.name }
withActor(parsed, session) ==
    [action |-> parsed.action, reference |-> parsed.reference,
     item_label |-> parsed.item_label, from_unit |-> parsed.from_unit,
     to_unit |-> parsed.to_unit, note |-> parsed.note,
     actor |-> session.profile.name]

\* The template literal `Unidade ${label} criada`, for the labels the
\* payloads of the model carry.
unidadeCriada(label) ==
    CASE label = <<" ", "P", "1">> -> "Unidade  P1 criada"
      [] label = <<"G", "1">> -> "Unidade G1 criada"
      [] OTHER -> "Unidade ? criada"

\* The movement storage:create writes for the unit it created.
cadastroMovement(label, session) ==
    [action |-> "Cadastro de unidade", reference |-> NULL, item_label |-> NULL,
     from_unit |-> NULL, to_unit |-> NULL,
     note |-> unidadeCriada(label),
     actor |-> session.profile.name]

\* ---------------------------------------------------------------- inputs
LoginInputs ==
    { [login |-> <<"a", "d", "m", "i", "n">>, password |-> <<"a", "d", "m", "i", "n">>],
      [login |-> <<" ", "A", "d", "m", "i", "n">>, password |-> <<"a", "d", "m", "i", "n">>],
      [login |-> <<"a", "n", "a">>, password |-> <<"a", "n", "a", "1">>],
      [login |-> <<"a", "n", "a">>, password |-> <<"a", "d", "m", "i", "n">>],
      [login |-> <<"a", "n">>, password |-> <<"a", "n", "a", "1">>] }

StorageInputs ==
    { [label |-> <<" ", "P", "1">>, type |-> "PASTA", section |-> NULL,
       capacity |-> <<>>, metadata |-> <<>>],
      [label |-> <<"G", "1">>, type |-> "GAVETEIRO", section |-> "Sala 2",
       capacity |-> <<3>>,
       metadata |-> <<<<[key |-> "shelf", kind |-> "number", v |-> 3]>>>>],
      [label |-> <<"G">>, type |-> "ROLO", section |-> NULL,
       capacity |-> <<-1>>, metadata |-> <<>>] }

\* The payload of movements:record may carry keys the schema does not
\* declare; actor is one a caller might add.
MovementInputs ==
    { [action |-> "Retirada", reference |-> "A", item_label |-> NULL,
       from_unit |-> "G1", to_unit |-> NULL, note |-> "conferido", actor |-> "Ana"],
      [action |-> "ok", reference |-> NULL, item_label |-> NULL,
       from_unit |-> NULL, to_unit |-> NULL, note |-> NULL, actor |-> NULL] }

\* Payloads of storage:create that differ in metadata: none, {shelf: 3},
\* {}, {shelf: NaN} and {shelf: undefined}; z.record(z.unknown()) accepts
\* each, and ipcRenderer.invoke delivers each as it was sent.
MetadataInputs ==
    { [label |-> <<"G", "1">>, type |-> "CAIXA", section |-> NULL, capacity |-> <<>>,
       metadata |-> m] :
      m \in { <<>>,
              <<<<[key |-> "shelf", kind |-> "number", v |-> 3]>>>>,
              <<<<>>>>,
              <<<<[key |-> "shelf", kind |-> "NaN", v |-> 0]>>>>,
              <<<<[key |-> "shelf", kind |-> "undefined", v |-> 0]>>>> } }

TokenInputs == 0..MaxTokens

\* The stores a start may find on disk: none yet, or one left by the
\* release that identified users by email.
FreshStore ==
    [schema |-> [users |-> {}, storage_units |-> FALSE, movements |-> FALSE],
     users |-> <<>>]

LegacyStore ==
    [schema |-> [users |-> LegacyUserCols, storage_units |-> TRUE, movements |-> TRUE],
     users |-> <<[id |-> 1, name |-> "Ana", login |-> <<"a", "n", "a", "@", "x">>,
                  password_hash |-> bcryptHash(<<"a", "n", "a", "1">>, 0),
                  role |-> "admin"]>>]

\* A store whose users table holds the default login twice: once under a
\* domain, once bare.
ClashStore ==
    [schema |-> [users |-> CurrentUserCols, storage_units |-> TRUE, movements |-> TRUE],
     users |-> <<[id |-> 1, name |-> "Administrador",
                  login |-> <<"a", "d", "m", "i", "n", "@", "x">>,
                  password_hash |-> bcryptHash(<<"a", "d", "m", "i", "n">>, 0),
                  role |-> "admin"],
                 [id |-> 2, name |-> "Administrador",
                  login |-> <<"a", "d", "m", "i", "n">>,
                  password_hash |-> bcryptHash(<<"a", "d", "m", "i", "n">>, 0),
                  role |-> "admin"]>>]

\* A store with one user under a bare login and another under the same
\* login with a domain, each with a password of their own.
StagedStore ==
    [schema |-> [users |-> CurrentUserCols, storage_units |-> TRUE, movements |-> TRUE],
     users |-> <<[id |-> 1, name |-> "Ana", login |-> <<"A", "n", "a">>,
                  password_hash |-> bcryptHash(<<"a", "n", "a", "1">>, 0),
                  role |-> "admin"],
                 [id |-> 2, name |-> "Ana X", login |-> <<"a", "n", "a", "@", "x">>,
                  password_hash |-> bcryptHash(<<"a", "n", "a", "2">>, 0),
                  role |-> "admin"]>>]

InitialStores == {FreshStore, LegacyStore, ClashStore, StagedStore}

\* The stores of the runs that exercise ledger and log.
SeqStores == {FreshStore, LegacyStore}

\* Payloads of auth:login that reach each SELECT of verifyLogin.
AuthInputs ==
    { [login |-> <<"a", "d", "m", "i", "n">>, password |-> <<"a", "d", "m", "i", "n">>],
      [login |-> <<" ", "A", "N", "A", " ">>, password |-> <<"a", "n", "a", "1">>],
      [login |-> <<"a", "n", "a">>, password |-> <<"a", "n", "a", "2">>],
      [login |-> <<"a", "n", "a", "@", "d">>, password |-> <<"a", "n", "a", "1">>],
      [login |-> <<"a", "n", "a", "@", "x">>, password |-> <<"a", "n", "a", "2">>],
      [login |-> <<"a", "_", "a">>, password |-> <<"a", "n", "a", "1">>],
      [login |-> <<"a", "_", "a">>, password |-> <<"a", "n", "a", "2">>],
      [login |-> <<"b", "o", "b">>, password |-> <<"a", "n", "a", "1">>],
      [login |-> <<" ", " ", " ">>, password |-> <<"a", "n", "a", "1">>],
      [login |-> <<"a", "n">>, password |-> <<"a", "n", "a", "1">>] }

\* Offsets of the host's time zone from UTC, in ticks: UTC and UTC+12.
TzOffsets == {0, TicksPerDay \div 2}

\* ---------------------------------------------------------------- state
VARIABLES
    phase,       \* "off" | "ready" | "aborted": bootstrap and registerIpc
    boots,       \* process starts so far
    schema,      \* the store: columns of users, presence of the other tables
    users,       \* the store: rows of users
    units,       \* the store: rows of storage_units, by id
    movements,   \* the store: rows of movements, by id
    sessions,    \* SessionStore.sessions: token -> ActiveSession
    nextToken,   \* the token the next crypto.randomUUID() returns
    clock,       \* wall clock, in ticks since the UTC epoch
    tz,          \* the host's offset from UTC, in ticks
    pc,          \* per request: the await its handler is suspended at
    req,         \* per request: channel and payload
    loc,         \* per request: the handler's local variables
    resp,        \* per request: <<>> or <<envelope returned>>
    issued,      \* history: token -> profile, as auth:login returned them
    loggedOut,   \* history: tokens created whose auth:logout has returned
    state,       \* renderer: <<>> (no window) or <<AppState of app.ts>>
    localStorage,\* renderer: the token kept under STORAGE_KEY, 0 when none
    outbox,      \* ipcRenderer.invoke messages ipcMain has yet to handle
    done         \* history: storage:create and movements:record answered with success

vars == <<phase, boots, schema, users, units, movements, sessions, nextToken,
          clock, tz, pc, req, loc, resp, issued, loggedOut,
          state, localStorage, outbox, done>>

store == <<schema, users, units, movements>>

NoReq == [op |-> "none", token |-> 0, data |-> <<>>]

\* seen and before are history, not locals of the code: the sizes <<units,
\* movements>> the store went through since the handler called snapshot,
\* and the sizes it had when a writing handler passed its token check.
NoLoc ==
    [session |-> <<>>, now |-> 0, lastID |-> 0, unit |-> <<>>, movement |-> <<>>,
     unitsByType |-> [ty \in storageTypes |-> 0], totalUnits |-> 0,
     movementsToday |-> 0, seen |-> {}, before |-> <<0, 0>>]

SnapshotPcs == {"snap1", "snap2", "snap3"}

Init ==
    /\ phase = "off"
    /\ boots = 0
    /\ \E st \in InitialStores : schema = st.schema /\ users = st.users
    /\ units = <<>>
    /\ movements = <<>>
    /\ sessions = <<>>
    /\ nextToken = 1
    /\ clock = 0
    /\ tz \in TzOffsets
    /\ pc = [r \in Reqs |-> "idle"]
    /\ req = [r \in Reqs |-> NoReq]
    /\ loc = [r \in Reqs |-> NoLoc]
    /\ resp = [r \in Reqs |-> <<>>]
    /\ issued = <<>>
    /\ loggedOut = {}
    /\ state = <<>>
    /\ localStorage = 0
    /\ outbox = <<>>
    /\ done = [creates |-> 0, records |-> 0]

\* ---------------------------------------------------------------- envelopes
failure_asSuccess(message) == [success |-> TRUE, error |-> message, data |-> <<>>]

failure(message) == [success |-> FALSE, error |-> message, data |-> <<>>]
success(data) == [success |-> TRUE, error |-> NULL, data |-> <<data>>]

\* return: the handler of r ends with this envelope.
Return(r, envelope) ==
    /\ \A q \in Reqs : resp[q] = <<>>
    /\ resp' = [resp EXCEPT ![r] = <<envelope>>]
    /\ pc' = [pc EXCEPT ![r] = "idle"]
    /\ loc' = [loc EXCEPT ![r] = NoLoc]

\* The locals of the other requests after a statement of r left the store
\* with nu units and nm movements.
Others(r, l, nu, nm) ==
    [q \in Reqs |->
       IF q = r THEN l
       ELSE IF pc[q] \in SnapshotPcs
            THEN [loc[q] EXCEPT !.seen = @ \cup {<<nu, nm>>}]
            ELSE loc[q]]

\* The handler of r goes on to await `next` with locals l.
Await(r, next, l) ==
    /\ \A q \in Reqs : resp[q] = <<>>
    /\ pc' = [pc EXCEPT ![r] = next]
    /\ loc' = [loc EXCEPT ![r] =
                 IF next = "snap1"
                 THEN [l EXCEPT !.seen = {<<Len(units), Len(movements)>>}]
                 ELSE l]
    /\ UNCHANGED resp

\* Delivery were the handlers registered before bootstrap has resolved.
Deliver_unregistered(r, op, token, data) ==
    /\ pc[r] = "idle"
    /\ r = "r2" => pc["r1"] # "idle"
    /\ \A q \in Reqs : resp[q] = <<>>
    /\ req' = [req EXCEPT ![r] = [op |-> op, token |-> token, data |-> data]]

\* ipcMain delivers a request to an idle slot.  Requests carry no identity
\* of their own: r2 names the one that arrives while r1 is in flight.  An
\* envelope is sent to the renderer as soon as its handler returns.
Deliver(r, op, token, data) ==
    /\ phase = "ready"
    /\ pc[r] = "idle"
    /\ r = "r2" => pc["r1"] # "idle"
    /\ \A q \in Reqs : resp[q] = <<>>
    /\ req' = [req EXCEPT ![r] = [op |-> op, token |-> token, data |-> data]]

\* Rows the requests in flight have yet to insert.
PendingUnits == Cardinality({r \in Reqs : pc[r] = "insUnit"})
PendingMovements ==
    Cardinality({r \in Reqs : pc[r] \in {"insUnit", "selUnit", "insMov"}})

\* ---------------------------------------------------------------- start
\* app.whenReady: bootstrap (connect, migrate, ensureDefaultAdmin), then
\* registerIpc.  No handler exists before registerIpc, so no request
\* interleaves with the pass.
Bootstrap ==
    /\ phase = "off"
    /\ boots < MaxBoots
    /\ \/ LET st == migrate([schema |-> schema, users |-> users,
                             units |-> units, movements |-> movements])
          IN  /\ schema' = st.schema
              /\ units' = st.units
              /\ movements' = st.movements
              /\ \E out \in ensureDefaultAdmin(st.users, defaultLogin, defaultPassword,
                                                boots + 1) :
                   /\ users' = out.users
                   /\ phase' = IF out.ok THEN "ready" ELSE "aborted"
       \/ \* ARCHIVE_DB_KEY is not set, or connect or the first statement of
          \* migrate is rejected: bootstrap throws with the store as it was
          /\ phase' = "aborted"
          /\ UNCHANGED <<schema, users, units, movements>>
    /\ boots' = boots + 1
    /\ UNCHANGED <<sessions, nextToken, clock, tz, pc, req, loc, resp, issued, loggedOut,
                   state, localStorage, outbox, done>>

\* A restart, were the session table to outlive the process.
Restart_keepSessions ==
    /\ \A q \in Reqs : resp[q] = <<>>
    /\ phase \in {"ready", "aborted"}
    /\ boots < MaxBoots
    /\ phase' = "off"
    /\ pc' = [r \in Reqs |-> "idle"]
    /\ req' = [r \in Reqs |-> NoReq]
    /\ loc' = [r \in Reqs |-> NoLoc]
    /\ resp' = [r \in Reqs |-> <<>>]
    /\ issued' = <<>>
    /\ loggedOut' = {}
    /\ state' = <<>>
    /\ outbox' = <<>>
    /\ UNCHANGED <<boots, schema, users, units, movements, sessions, nextToken, clock, tz,
                   localStorage, done>>

\* The process ends (quit, crash, kill) and is started again: everything in
\* memory is gone, in the main process and in the renderer; the store file
\* and the renderer's localStorage stay.
Restart ==
    /\ \A q \in Reqs : resp[q] = <<>>
    /\ phase \in {"ready", "aborted"}
    /\ boots < MaxBoots
    /\ phase' = "off"
    /\ sessions' = <<>>
    /\ pc' = [r \in Reqs |-> "idle"]
    /\ req' = [r \in Reqs |-> NoReq]
    /\ loc' = [r \in Reqs |-> NoLoc]
    /\ resp' = [r \in Reqs |-> <<>>]
    /\ issued' = <<>>
    /\ loggedOut' = {}
    /\ state' = <<>>
    /\ outbox' = <<>>
    /\ UNCHANGED <<boots, schema, users, units, movements, nextToken, clock, tz,
                   localStorage, done>>

\* ipcMain sends the envelope of r to the renderer; the slot is free again.
Reply(r) ==
    /\ resp[r] # <<>>
    /\ resp' = [resp EXCEPT ![r] = <<>>]
    /\ req' = [req EXCEPT ![r] = NoReq]
    /\ UNCHANGED <<phase, boots, schema, users, units, movements, sessions,
                   nextToken, clock, tz, pc, loc, issued, loggedOut,
                   state, localStorage, outbox, done>>

\* Time passes.
Tick ==
    /\ \A q \in Reqs : resp[q] = <<>>
    /\ clock < MaxClock
    /\ clock' = clock + 1
    /\ UNCHANGED <<phase, boots, schema, users, units, movements, sessions,
                   nextToken, tz, pc, req, loc, resp, issued, loggedOut,
                   state, localStorage, outbox, done>>

\* ---------------------------------------------------------------- reads
\* JSON.parse(row.metadata) when the column is truthy, else null (<<>>); no
\* text JSON.stringify writes is the empty string.
parseMetadata(text) == IF text = <<>> THEN <<>> ELSE <<JSONparse(text[1])>>

\* A row of storage_units as the API returns it.
toStorageUnitRecord(row) == [row EXCEPT !.metadata = parseMetadata(row.metadata)]

\* ArchiveDatabase.listStorageUnits: ORDER BY updated_at DESC, the possible
\* results; rows written in one millisecond tie.
listStorageUnits(us) ==
    LET n == Len(us)
        arrangements == {f \in [1..n -> 1..n] : \A i, j \in 1..n : i # j => f[i] # f[j]}
    IN  { [i \in 1..n |-> toStorageUnitRecord(us[f[i]])] :
          f \in {g \in arrangements :
                   \A i, j \in 1..n : i < j => us[g[i]].updated_at >= us[g[j]].updated_at} }

\* SessionStore.require: <<>> stands for the error it throws.
sessions_require(table, token) == sessions_get(table, token)

InvalidSession == "Sessao invalida"
LoginAgain == "Sessao invalida. Faca login novamente."
InvalidCredentials == "Credenciais invalidas"
Issues == "issues"   \* formatIssues(parsed.error)
StoreError == "SQLITE_ERROR"   \* the message of the Error a statement rejects with

\* ---------------------------------------------------------------- handlers
\* ipcMain.handle('auth:login') invoked with payload data.  verifyLogin
\* reads only the users table, which no handler writes, so its awaits are
\* taken in one step.
AuthLoginOn(r, data) ==
    /\ Deliver(r, "auth:login", 0, data)
    /\ IF ~loginSchema(data)
       THEN Return(r, failure(Issues)) /\ UNCHANGED <<sessions, nextToken>>
       ELSE \E user \in verifyLogin(users, data.login, data.password) :
              IF user = <<>>
              THEN Return(r, failure(InvalidCredentials)) /\ UNCHANGED <<sessions, nextToken>>
              ELSE /\ nextToken <= MaxTokens
                   /\ sessions' = sessions_create(sessions, nextToken, user[1])
                   /\ nextToken' = nextToken + 1
                   /\ Await(r, "snap1", [NoLoc EXCEPT !.session = <<sessions'[nextToken]>>])

AuthLoginWith(r, inputs) ==
    \E data \in inputs :
      /\ AuthLoginOn(r, data)
      /\ UNCHANGED <<phase, boots, schema, users, units, movements, clock, tz,
                     issued, loggedOut,
                     state, localStorage, outbox, done>>

AuthLogin(r) == AuthLoginWith(r, LoginInputs)

\* The part the protected handlers share: the token's schema, then
\* sessions.require, then the first await.  createStorageUnit and
\* recordMovement read the clock (new Date()) before their INSERT.
Gate(r, token, next) ==
    IF ~tokenSchema(token)
    THEN Return(r, failure(InvalidSession))
    ELSE LET session == sessions_require(sessions, token)
         IN  IF session = <<>>
             THEN Return(r, failure(LoginAgain))
             ELSE Await(r, next,
                        [NoLoc EXCEPT !.session = session,
                                      !.now = IF next \in {"insUnit", "insMov"}
                                              THEN clock ELSE 0,
                                      !.before = IF next \in {"insUnit", "insMov"}
                                                 THEN <<Len(units), Len(movements)>>
                                                 ELSE <<0, 0>>])

\* ipcMain.handle('auth:session') invoked with { token }
AuthSessionOn(r, token) ==
    /\ Deliver(r, "auth:session", token, <<>>)
    /\ Gate(r, token, "snap1")

AuthSession(r) ==
    \E token \in TokenInputs :
      /\ AuthSessionOn(r, token)
      /\ UNCHANGED <<phase, boots, schema, users, units, movements, sessions,
                     nextToken, clock, tz, issued, loggedOut,
                     state, localStorage, outbox, done>>

\* ipcMain.handle('auth:logout') invoked with { token }: synchronous.
AuthLogoutOn(r, token) ==
    /\ Deliver(r, "auth:logout", token, <<>>)
    /\ sessions' = IF tokenSchema(token) THEN sessions_revoke(sessions, token) ELSE sessions
    /\ Return(r, [success |-> TRUE, error |-> NULL, data |-> <<>>])
    /\ loggedOut' = IF tokenSchema(token) /\ token < nextToken
                     THEN loggedOut \cup {token} ELSE loggedOut

AuthLogout(r) ==
    \E token \in TokenInputs :
      /\ AuthLogoutOn(r, token)
      /\ UNCHANGED <<phase, boots, schema, users, units, movements, nextToken, clock,
                     tz, issued,
                     state, localStorage, outbox, done>>

\* ipcMain.handle('storage:list') invoked with { token }
StorageListOn(r, token) ==
    /\ Deliver(r, "storage:list", token, <<>>)
    /\ Gate(r, token, "listUnits")

StorageList(r) ==
    \E token \in TokenInputs :
      /\ StorageListOn(r, token)
      /\ UNCHANGED <<phase, boots, schema, users, units, movements, sessions,
                     nextToken, clock, tz, issued, loggedOut,
                     state, localStorage, outbox, done>>

\* ipcMain.handle('movements:list') invoked with { token }
MovementsListOn(r, token) ==
    /\ Deliver(r, "movements:list", token, <<>>)
    /\ Gate(r, token, "listMovements")

MovementsList(r) ==
    \E token \in TokenInputs :
      /\ MovementsListOn(r, token)
      /\ UNCHANGED <<phase, boots, schema, users, units, movements, sessions,
                     nextToken, clock, tz, issued, loggedOut,
                     state, localStorage, outbox, done>>

\* ipcMain.handle('storage:create') invoked with { token, data }, up to the
\* INSERT of createStorageUnit.
StorageCreateOn(r, token, data) ==
    /\ Deliver(r, "storage:create", token, data)
    /\ Len(units) + PendingUnits < MaxUnits
    /\ Len(movements) + PendingMovements < MaxMovements
    /\ IF ~tokenSchema(token) \/ storageSchema(data) = <<>>
       THEN Return(r, failure(Issues))
       ELSE Gate(r, token, "insUnit")

StorageCreateWith(r, inputs) ==
    \E token \in TokenInputs, data \in inputs :
      /\ StorageCreateOn(r, token, data)
      /\ UNCHANGED <<phase, boots, schema, users, units, movements, sessions,
                     nextToken, clock, tz, issued, loggedOut,
                     state, localStorage, outbox, done>>

StorageCreate(r) == StorageCreateWith(r, StorageInputs)

\* ipcMain.handle('movements:record') invoked with { token, data }, up to
\* the INSERT of recordMovement.
MovementsRecordOn(r, token, data) ==
    /\ Deliver(r, "movements:record", token, data)
    /\ Len(movements) + PendingMovements < MaxMovements
    /\ IF ~tokenSchema(token) \/ movementSchema(data) = <<>>
       THEN Return(r, failure(Issues))
       ELSE Gate(r, token, "insMov")

MovementsRecord(r) ==
    \E token \in TokenInputs, data \in MovementInputs :
      /\ MovementsRecordOn(r, token, data)
      /\ UNCHANGED <<phase, boots, schema, users, units, movements, sessions,
                     nextToken, clock, tz, issued, loggedOut,
                     state, localStorage, outbox, done>>

\* ---------------------------------------------------------------- statements
\* Each action below is one awaited statement executing, followed by the
\* synchronous code of the handler up to its next await.

\* The payload recordMovement is called with by the handler of r.
movementPayload(r) ==
    IF req[r].op = "storage:create"
    THEN cadastroMovement(storageSchema(req[r].data)[1].label, loc[r].session[1])
    ELSE withActor(movementSchema(req[r].data)[1], loc[r].session[1])

\* createStorageUnit: the INSERT.
InsertUnit(r) ==
    /\ pc[r] = "insUnit"
    /\ \A q \in Reqs : resp[q] = <<>>
    /\ units' = insertStorageUnit(units, storageSchema(req[r].data)[1], loc[r].now)
    /\ pc' = [pc EXCEPT ![r] = "selUnit"]
    /\ loc' = Others(r, [loc[r] EXCEPT !.lastID = Len(units')], Len(units'), Len(movements))
    /\ UNCHANGED <<phase, boots, schema, users, movements, sessions, nextToken,
                   clock, tz, req, resp, issued, loggedOut,
                   state, localStorage, outbox, done>>

\* storage:create, were it to go from createStorageUnit to snapshot
\* without recording a movement.
SelectUnit_unlogged(r) ==
    /\ pc[r] = "selUnit"
    /\ Await(r, "snap1", [loc[r] EXCEPT !.unit = <<toStorageUnitRecord(units[loc[r].lastID])>>])
    /\ UNCHANGED <<phase, boots, schema, users, units, movements, sessions,
                   nextToken, clock, tz, req, issued, loggedOut,
                   state, localStorage, outbox, done>>

\* createStorageUnit: the SELECT by id and the return; the handler then
\* calls recordMovement, which reads the clock and issues its INSERT.
SelectUnit(r) ==
    /\ pc[r] = "selUnit"
    /\ LET record == selectById(units, loc[r].lastID)
       IN  IF record = <<>>
           THEN Return(r, failure("Falha ao criar unidade de guarda."))
           ELSE Await(r, "insMov",
                      [loc[r] EXCEPT !.unit = <<toStorageUnitRecord(record[1])>>,
                                     !.now = clock])
    /\ UNCHANGED <<phase, boots, schema, users, units, movements, sessions,
                   nextToken, clock, tz, req, issued, loggedOut,
                   state, localStorage, outbox, done>>

\* recordMovement: the INSERT.
InsertMovement(r) ==
    /\ pc[r] = "insMov"
    /\ \A q \in Reqs : resp[q] = <<>>
    /\ movements' = insertMovement(movements, movementPayload(r), loc[r].now)
    /\ pc' = [pc EXCEPT ![r] = "selMov"]
    /\ loc' = Others(r, [loc[r] EXCEPT !.lastID = Len(movements')], Len(units), Len(movements'))
    /\ UNCHANGED <<phase, boots, schema, users, units, sessions, nextToken,
                   clock, tz, req, resp, issued, loggedOut,
                   state, localStorage, outbox, done>>

\* recordMovement: the SELECT by id and the return; the handler then calls
\* snapshot.
SelectMovement(r) ==
    /\ pc[r] = "selMov"
    /\ LET record == selectById(movements, loc[r].lastID)
       IN  IF record = <<>>
           THEN Return(r, failure("Falha ao registrar movimentacao."))
           ELSE Await(r, "snap1", [loc[r] EXCEPT !.movement = record])
    /\ UNCHANGED <<phase, boots, schema, users, units, movements, sessions,
                   nextToken, clock, tz, req, issued, loggedOut,
                   state, localStorage, outbox, done>>

\* snapshot: the GROUP BY query, the template loop and totalUnits.
SnapshotCounters(r) ==
    /\ pc[r] = "snap1"
    /\ LET template == countersTemplate(units)
       IN  Await(r, "snap2", [loc[r] EXCEPT !.unitsByType = template,
                                            !.totalUnits = totalOf(template)])
    /\ UNCHANGED <<phase, boots, schema, users, units, movements, sessions,
                   nextToken, clock, tz, req, issued, loggedOut,
                   state, localStorage, outbox, done>>

\* snapshot: the count of today's movements.
SnapshotToday(r) ==
    /\ pc[r] = "snap2"
    /\ Await(r, "snap3", [loc[r] EXCEPT !.movementsToday = countToday(movements, clock)])
    /\ UNCHANGED <<phase, boots, schema, users, units, movements, sessions,
                   nextToken, clock, tz, req, issued, loggedOut,
                   state, localStorage, outbox, done>>

\* What the handler of r returns once snapshot has resolved.
handlerResult(r, snapshot) ==
    CASE req[r].op \in {"auth:login", "auth:session"} ->
           [token |-> loc[r].session[1].token, profile |-> loc[r].session[1].profile,
            snapshot |-> snapshot]
      [] req[r].op = "storage:create" ->
           [unit |-> loc[r].unit[1], snapshot |-> snapshot]
      [] OTHER ->
           [movement |-> loc[r].movement[1], snapshot |-> snapshot]

\* snapshot: the last movement, the summary, and the handler's return.
SnapshotLast(r) ==
    /\ pc[r] = "snap3"
    /\ \E lastMovement \in selectLastMovement(movements) :
         Return(r, success(handlerResult(r,
            [totalUnits |-> loc[r].totalUnits,
             unitsByType |-> loc[r].unitsByType,
             movementsToday |-> loc[r].movementsToday,
             lastMovement |-> lastMovement])))
    /\ issued' = IF req[r].op = "auth:login"
                 THEN [t \in DOMAIN issued \cup {loc[r].session[1].token} |->
                         IF t = loc[r].session[1].token
                         THEN loc[r].session[1].profile ELSE issued[t]]
                 ELSE issued
    /\ done' = CASE req[r].op = "storage:create" -> [done EXCEPT !.creates = @ + 1]
                 [] req[r].op = "movements:record" -> [done EXCEPT !.records = @ + 1]
                 [] OTHER -> done
    /\ UNCHANGED <<phase, boots, schema, users, units, movements, sessions,
                   nextToken, clock, tz, req, loggedOut,
                   state, localStorage, outbox>>

\* storage:list: the query of listStorageUnits and the return.
ListUnits(r) ==
    /\ pc[r] = "listUnits"
    /\ \E rows \in listStorageUnits(units) : Return(r, success(rows))
    /\ UNCHANGED <<phase, boots, schema, users, units, movements, sessions,
                   nextToken, clock, tz, req, issued, loggedOut,
                   state, localStorage, outbox, done>>

\* movements:list: the query of listMovements and the return.
ListMovements(r) ==
    /\ pc[r] = "listMovements"
    /\ \E rows \in listMovements(movements, DefaultLimit) : Return(r, success(rows))
    /\ UNCHANGED <<phase, boots, schema, users, units, movements, sessions,
                   nextToken, clock, tz, req, issued, loggedOut,
                   state, localStorage, outbox, done>>

\* The statement the handler of r awaits is rejected by the store and has
\* no effect: the await throws, and the catch of the handler answers with
\* the message of the error.
StoreFails(r) ==
    /\ pc[r] # "idle"
    /\ Return(r, failure(StoreError))
    /\ UNCHANGED <<phase, boots, schema, users, units, movements, sessions,
                   nextToken, clock, tz, req, issued, loggedOut,
                   state, localStorage, outbox, done>>

\* auth:login whose verifyLogin is rejected by the store.
VerifyLoginFails(r) ==
    \E data \in LoginInputs :
      /\ loginSchema(data)
      /\ Deliver(r, "auth:login", 0, data)
      /\ Return(r, failure(StoreError))
      /\ UNCHANGED <<phase, boots, schema, users, units, movements, sessions,
                     nextToken, clock, tz, issued, loggedOut,
                   state, localStorage, outbox, done>>

\* The statements and continuations of the request in slot r.
Step(r) ==
    \/ InsertUnit(r)
    \/ SelectUnit(r)
    \/ InsertMovement(r)
    \/ SelectMovement(r)
    \/ SnapshotCounters(r)
    \/ SnapshotToday(r)
    \/ SnapshotLast(r)
    \/ ListUnits(r)
    \/ ListMovements(r)
    \/ Reply(r)

\* The handlers ipcMain may invoke for slot r.
Handle(r) ==
    \/ AuthLogin(r)
    \/ AuthSession(r)
    \/ AuthLogout(r)
    \/ StorageList(r)
    \/ StorageCreate(r)
    \/ MovementsList(r)
    \/ MovementsRecord(r)

\* ---------------------------------------------------------------- renderer
\* The page of app.ts.  The renderer's record holds AppState (token,
\* profile, storage, movements, snapshot; 0 and <<>> stand for null), the
\* lock setGuardState puts on the two forms, the refreshes the Promise.all
\* of handleLogin or resumeSession still awaits, and, as history, whether
\* the logout handler has finished with no login succeeding since.
MaxOutbox == 2

AppState0(token) ==
    [token |-> token, profile |-> <<>>, storage |-> <<>>, movements |-> <<>>,
     snapshot |-> <<>>, locked |-> token = 0, joining |-> 0, left |-> FALSE]

\* What the user types into the login form.
FormLogins ==
    { [login |-> <<" ", "A", "d", "m", "i", "n">>, password |-> <<"a", "d", "m", "i", "n">>],
      [login |-> <<"a", "n", "a">>, password |-> <<"a", "n", "a", "1">>] }

\* The payload handleStorageCreation builds from the storage form.
FormStorage ==
    { [label |-> trim(<<" ", "P", "1">>), type |-> "PASTA", section |-> NULL,
       capacity |-> <<0>>, metadata |-> <<>>] }

\* The payload handleMovement builds from the movement form.
FormMovements ==
    { [action |-> "Retirada", reference |-> "A", item_label |-> NULL,
       from_unit |-> "P1", to_unit |-> NULL, note |-> NULL] }

\* Requests of the renderer on the channels ops that are not answered yet.
Outstanding(ops) ==
    Cardinality({i \in 1..Len(outbox) : outbox[i].op \in ops})
      + Cardinality({r \in Reqs : req[r].op \in ops})

\* ipcRenderer.invoke: the message joins those ipcMain has yet to handle.
invoke(op, token, data) == Append(outbox, [op |-> op, token |-> token, data |-> data])

\* createWindow loads the page; init() reads the token from localStorage
\* and, when there is one, calls resumeSession.
CreateWindow ==
    /\ phase = "ready"
    /\ state = <<>>
    /\ state' = <<AppState0(localStorage)>>
    /\ outbox' = IF localStorage # 0
                 THEN invoke("auth:session", localStorage, <<>>)
                 ELSE outbox
    /\ UNCHANGED <<phase, boots, schema, users, units, movements, sessions, nextToken,
                   clock, tz, pc, req, loc, resp, issued, loggedOut, localStorage, done>>

\* handleLogin, up to its await.  One login or resume is in progress at a
\* time.
SubmitLogin ==
    /\ state # <<>>
    /\ Len(outbox) < MaxOutbox
    /\ nextToken <= MaxTokens
    /\ Outstanding({"auth:login", "auth:session", "storage:list", "movements:list"}) = 0
    /\ \E typed \in FormLogins :
         LET login == trim(typed.login)
         IN  /\ login # <<>> /\ typed.password # <<>>
             /\ outbox' = invoke("auth:login", 0, [login |-> login, password |-> typed.password])
    /\ UNCHANGED <<phase, boots, schema, users, units, movements, sessions, nextToken,
                   clock, tz, pc, req, loc, resp, issued, loggedOut, state,
                   localStorage, done>>

\* The click handler of the logout button (handleLogout), up to its await.
ClickLogout ==
    /\ state # <<>>
    /\ state[1].token # 0
    /\ Len(outbox) < MaxOutbox
    /\ Outstanding({"auth:logout"}) = 0
    /\ outbox' = invoke("auth:logout", state[1].token, <<>>)
    /\ UNCHANGED <<phase, boots, schema, users, units, movements, sessions, nextToken,
                   clock, tz, pc, req, loc, resp, issued, loggedOut, state,
                   localStorage, done>>

\* handleStorageCreation, up to its await; a locked form cannot be
\* submitted.
SubmitStorage ==
    /\ state # <<>>
    /\ ~state[1].locked
    /\ state[1].token # 0
    /\ Len(outbox) < MaxOutbox
    /\ Len(units) + PendingUnits + Outstanding({"storage:create"}) < MaxUnits
    /\ Len(movements) + PendingMovements
         + Outstanding({"storage:create", "movements:record"}) < MaxMovements
    /\ \E payload \in FormStorage :
         /\ payload.label # <<>>
         /\ outbox' = invoke("storage:create", state[1].token, payload)
    /\ UNCHANGED <<phase, boots, schema, users, units, movements, sessions, nextToken,
                   clock, tz, pc, req, loc, resp, issued, loggedOut, state,
                   localStorage, done>>

\* handleMovement, up to its await.
SubmitMovement ==
    /\ state # <<>>
    /\ ~state[1].locked
    /\ state[1].token # 0
    /\ Len(outbox) < MaxOutbox
    /\ Len(movements) + PendingMovements
         + Outstanding({"storage:create", "movements:record"}) < MaxMovements
    /\ \E payload \in FormMovements :
         /\ payload.action # ""
         /\ outbox' = invoke("movements:record", state[1].token, payload)
    /\ UNCHANGED <<phase, boots, schema, users, units, movements, sessions, nextToken,
                   clock, tz, pc, req, loc, resp, issued, loggedOut, state,
                   localStorage, done>>

\* ipcMain takes the renderer's oldest message and runs its handler up to
\* the first await.
Invoke(r) ==
    /\ outbox # <<>>
    /\ outbox' = Tail(outbox)
    /\ LET m == Head(outbox)
       IN  \/ /\ m.op = "auth:login"
              /\ AuthLoginOn(r, m.data)
              /\ UNCHANGED loggedOut
           \/ /\ m.op = "auth:session"
              /\ AuthSessionOn(r, m.token)
              /\ UNCHANGED <<sessions, nextToken, loggedOut>>
           \/ /\ m.op = "auth:logout"
              /\ AuthLogoutOn(r, m.token)
              /\ UNCHANGED nextToken
           \/ /\ m.op = "storage:list"
              /\ StorageListOn(r, m.token)
              /\ UNCHANGED <<sessions, nextToken, loggedOut>>
           \/ /\ m.op = "movements:list"
              /\ MovementsListOn(r, m.token)
              /\ UNCHANGED <<sessions, nextToken, loggedOut>>
           \/ /\ m.op = "storage:create"
              /\ StorageCreateOn(r, m.token, m.data)
              /\ UNCHANGED <<sessions, nextToken, loggedOut>>
           \/ /\ m.op = "movements:record"
              /\ MovementsRecordOn(r, m.token, m.data)
              /\ UNCHANGED <<sessions, nextToken, loggedOut>>
    /\ UNCHANGED <<phase, boots, schema, users, units, movements, clock, tz, issued,
                   state, localStorage, done>>

\* refreshStorage() and refreshMovements() as Promise.all calls them: each
\* returns at once without a token.
refreshCalls(token) ==
    IF token = 0 THEN <<>>
    ELSE <<[op |-> "storage:list", token |-> token, data |-> <<>>],
           [op |-> "movements:list", token |-> token, data |-> <<>>]>>

\* The code after an await of the renderer once envelope e has arrived, by
\* the channel awaited: the renderer's record, localStorage, and the
\* messages it invokes.  The code after the Promise.all unlocks the forms.
joined(st) ==
    [st EXCEPT !.joining = IF @ > 0 THEN @ - 1 ELSE 0,
               !.locked = IF st.joining = 1 THEN FALSE ELSE @]

resumed(st, token, calls) ==
    [st EXCEPT !.joining = Len(calls),
               !.locked = IF calls = <<>> THEN FALSE ELSE @]

Continuation(op, st, stored, e) ==
    LET ok == e.success /\ e.data # <<>>
        same == [state |-> st, stored |-> stored, calls |-> <<>>]
    IN  CASE op = "auth:logout" ->
               [state |-> [AppState0(0) EXCEPT !.joining = st.joining, !.left = TRUE],
                stored |-> 0, calls |-> <<>>]
          [] op = "auth:session" ->
               IF ~ok
               THEN [state |-> [st EXCEPT !.token = 0, !.profile = <<>>, !.locked = TRUE],
                     stored |-> 0, calls |-> <<>>]
               ELSE LET calls == refreshCalls(st.token)
                    IN  [state |-> resumed([st EXCEPT !.snapshot = <<e.data[1].snapshot>>,
                                                      !.profile = <<e.data[1].profile>>],
                                           st.token, calls),
                         stored |-> stored, calls |-> calls]
          [] op = "auth:login" ->
               IF ~ok THEN same
               ELSE LET calls == refreshCalls(e.data[1].token)
                    IN  [state |-> resumed([st EXCEPT !.token = e.data[1].token,
                                                      !.snapshot = <<e.data[1].snapshot>>,
                                                      !.profile = <<e.data[1].profile>>,
                                                      !.left = FALSE],
                                           e.data[1].token, calls),
                         stored |-> IF e.data[1].token # 0 THEN e.data[1].token ELSE stored,
                         calls |-> calls]
          [] op = "storage:list" ->
               [state |-> joined(IF ok THEN [st EXCEPT !.storage = e.data[1]] ELSE st),
                stored |-> stored, calls |-> <<>>]
          [] op = "movements:list" ->
               [state |-> joined(IF ok THEN [st EXCEPT !.movements = e.data[1]] ELSE st),
                stored |-> stored, calls |-> <<>>]
          [] op = "storage:create" ->
               IF ~ok THEN same
               ELSE [state |-> [st EXCEPT !.snapshot = <<e.data[1].snapshot>>,
                                          !.storage = <<e.data[1].unit>> \o @],
                     stored |-> stored, calls |-> <<>>]
          [] op = "movements:record" ->
               IF ~ok THEN same
               ELSE [state |-> [st EXCEPT !.snapshot = <<e.data[1].snapshot>>,
                                          !.movements =
                                              limitRows(<<e.data[1].movement>> \o @, DefaultLimit)],
                     stored |-> stored, calls |-> <<>>]
          [] OTHER -> same

\* The envelope of r reaches the renderer, and the code after the await
\* runs.
Resolve(r) ==
    /\ resp[r] # <<>>
    /\ state # <<>>
    /\ resp' = [resp EXCEPT ![r] = <<>>]
    /\ req' = [req EXCEPT ![r] = NoReq]
    /\ LET out == Continuation(req[r].op, state[1], localStorage, resp[r][1])
       IN  /\ state' = <<out.state>>
           /\ localStorage' = out.stored
           /\ outbox' = outbox \o out.calls
    /\ UNCHANGED <<phase, boots, schema, users, units, movements, sessions,
                   nextToken, clock, tz, pc, loc, issued, loggedOut, done>>

\* The statements of the request in slot r.
Statement(r) ==
    \/ InsertUnit(r)
    \/ SelectUnit(r)
    \/ InsertMovement(r)
    \/ SelectMovement(r)
    \/ SnapshotCounters(r)
    \/ SnapshotToday(r)
    \/ SnapshotLast(r)
    \/ ListUnits(r)
    \/ ListMovements(r)

\* The program: any number of process runs, requests overlapping.
Next ==
    \/ CreateWindow
    \/ SubmitLogin
    \/ ClickLogout
    \/ SubmitStorage
    \/ SubmitMovement
    \/ \E r \in Reqs : Invoke(r) \/ Resolve(r)
    \/ \E r \in Reqs : StoreFails(r) \/ VerifyLoginFails(r)
    \/ Bootstrap
    \/ Restart
    \/ Tick
    \/ \E r \in Reqs : Handle(r)
    \/ \E r \in Reqs : Step(r)

Spec == Init /\ [][Next]_vars

\* ---------------------------------------------------------------- slices
\* The parts of Spec that are explored exhaustively.
\*
\* SpecSeq: every store, restarts, host on UTC; the renderer sends a
\* request after the answer to the one before.
NextSeq ==
    \/ Bootstrap
    \/ Restart
    \/ Tick
    \/ Handle("r1")
    \/ Step("r1")

InitSeq ==
    /\ Init
    /\ tz = 0
    /\ \E st \in SeqStores : schema = st.schema /\ users = st.users

SpecSeq == InitSeq /\ [][NextSeq]_vars

\* SpecLedger: a new store, one run, the ledger operations with payloads
\* of every kind of metadata; the renderer sends a request after the
\* answer to the one before.
NextLedger ==
    \/ Bootstrap
    \/ AuthLogin("r1")
    \/ StorageCreateWith("r1", MetadataInputs)
    \/ StorageList("r1")
    \/ InsertUnit("r1")
    \/ SelectUnit("r1")
    \/ InsertMovement("r1")
    \/ SelectMovement("r1")
    \/ SnapshotCounters("r1")
    \/ SnapshotToday("r1")
    \/ SnapshotLast("r1")
    \/ ListUnits("r1")
    \/ Reply("r1")

InitLedger ==
    /\ Init
    /\ schema = FreshStore.schema
    /\ users = FreshStore.users
    /\ tz = 0

SpecLedger == InitLedger /\ [][NextLedger]_vars

\* SpecAuth: every store, restarts, the start and auth:login with the
\* payloads that reach each SELECT of verifyLogin.
NextAuth ==
    \/ Bootstrap
    \/ Restart
    \/ AuthLoginWith("r1", AuthInputs)
    \/ SnapshotCounters("r1")
    \/ SnapshotToday("r1")
    \/ SnapshotLast("r1")
    \/ Reply("r1")

InitAuth == Init /\ tz = 0

SpecAuth == InitAuth /\ [][NextAuth]_vars

\* SpecFault: a new store, one run, every handler, and a store that may
\* reject any statement; the renderer sends a request after the answer to
\* the one before.
NextFault ==
    \/ Bootstrap
    \/ Handle("r1")
    \/ Step("r1")
    \/ StoreFails("r1")
    \/ VerifyLoginFails("r1")

SpecFault == InitLedger /\ [][NextFault]_vars

\* SpecClient: a new store, restarts, host on UTC; every request is one
\* the page of app.ts sends, and requests overlap.
NextClient ==
    \/ Bootstrap
    \/ Restart
    \/ CreateWindow
    \/ SubmitLogin
    \/ ClickLogout
    \/ SubmitStorage
    \/ SubmitMovement
    \/ \E r \in Reqs : Invoke(r)
    \/ \E r \in Reqs : Statement(r)
    \/ \E r \in Reqs : Resolve(r)

SpecClient == InitLedger /\ [][NextClient]_vars

\* SpecZone: as SpecSeq, on a new store, the host in any time zone.
InitZone ==
    /\ Init
    /\ schema = FreshStore.schema
    /\ users = FreshStore.users

SpecZone == InitZone /\ [][NextSeq]_vars

\* SpecConc: one run of the process on a new store, host on UTC, requests
\* overlapping; at most ConcMaxUnits units and ConcMaxTokens sessions.
ConcMaxUnits == 1
ConcMaxTokens == 1

InitConc ==
    /\ Init
    /\ schema = FreshStore.schema
    /\ users = FreshStore.users
    /\ tz = 0

NextConc ==
    \/ Bootstrap
    \/ Tick
    \/ \E r \in Reqs : nextToken <= ConcMaxTokens /\ AuthLogin(r)
    \/ \E r \in Reqs : AuthSession(r)
    \/ \E r \in Reqs : AuthLogout(r)
    \/ \E r \in Reqs : StorageList(r)
    \/ \E r \in Reqs : Len(units) + PendingUnits < ConcMaxUnits /\ StorageCreate(r)
    \/ \E r \in Reqs : MovementsList(r)
    \/ \E r \in Reqs : MovementsRecord(r)
    \/ \E r \in Reqs : Step(r)

SpecConc == InitConc /\ [][NextConc]_vars

\* ================================================================ claims
Protected ==
    {"auth:session", "storage:list", "storage:create", "movements:list",
     "movements:record"}

\* The handler of r starts in this step.
Starts(r) == pc[r] = "idle" /\ req[r] = NoReq /\ req'[r] # NoReq

\* The handler of r returns in this step.
Returns(r) == resp[r] = <<>> /\ resp'[r] # <<>>

\* ---------------------------------------------------------------- C1
\* C1: a protected request whose token is not a key of the session table
\* when the handler checks it is answered with a failure in that very step,
\* with ledger, log and session table unchanged; a protected request goes
\* past the check only with the session the table holds for its token, and
\* only a request that went past the check is answered with success.
C1_TokenGate ==
    [][\A r \in Reqs :
         /\ (Starts(r) /\ req'[r].op \in Protected) =>
              IF req'[r].token \in DOMAIN sessions
              THEN pc'[r] # "idle" => loc'[r].session = <<sessions[req'[r].token]>>
              ELSE /\ resp'[r] # <<>>
                   /\ ~resp'[r][1].success
                   /\ pc'[r] = "idle"
                   /\ UNCHANGED <<units, movements, sessions>>
         /\ (Returns(r) /\ req'[r].op \in Protected /\ resp'[r][1].success) =>
              /\ pc[r] # "idle"
              /\ loc[r].session # <<>>
              /\ loc[r].session[1].token = req[r].token]_vars

\* A protected request with an unknown token was refused while a session
\* of another token was live and the log was not empty.
C1_Witness ==
    \E r \in Reqs :
      /\ resp[r] # <<>>
      /\ req[r].op = "movements:record"
      /\ ~resp[r][1].success
      /\ resp[r][1].error = LoginAgain
      /\ req[r].token \notin DOMAIN sessions
      /\ DOMAIN sessions # {}
      /\ movements # <<>>

\* ---------------------------------------------------------------- C2
\* C2: once auth:login has returned token t with profile p, an
\* auth:session(t) that starts before auth:logout(t) has returned goes past
\* the check with t and p and is answered with success, t and p; one that
\* starts after auth:logout(t) has returned is answered with the
\* authentication error.
C2_SessionLifetime ==
    [][\A r \in Reqs :
         /\ (Starts(r) /\ req'[r].op = "auth:session") =>
              LET t == req'[r].token
              IN  /\ (t \in DOMAIN issued /\ t \notin loggedOut) =>
                       /\ pc'[r] = "snap1"
                       /\ loc'[r].session = <<[token |-> t, profile |-> issued[t]]>>
                  /\ t \in loggedOut => resp'[r] = <<failure(LoginAgain)>>
         /\ (Returns(r) /\ req[r].op = "auth:session" /\ pc[r] # "idle") =>
              /\ resp'[r][1].success
              /\ resp'[r][1].data[1].token = req[r].token
              /\ resp'[r][1].data[1].profile = loc[r].session[1].profile]_vars

\* auth:session was refused for a token that had been logged out, while
\* another token, issued later to another profile, stayed live.
C2_Witness ==
    \E r \in Reqs :
      /\ resp[r] # <<>>
      /\ req[r].op = "auth:session"
      /\ req[r].token \in loggedOut
      /\ req[r].token \in DOMAIN issued
      /\ resp[r] = <<failure(LoginAgain)>>
      /\ \E t \in DOMAIN sessions :
           /\ t \in DOMAIN issued
           /\ issued[t] # issued[req[r].token]

\* ---------------------------------------------------------------- C3
\* C3: the movement an INSERT of recordMovement appends has as actor the
\* name of the profile auth:login returned for the token of the request
\* that runs the INSERT, whatever the payload carries.
C3_ActorFromSession ==
    [][Len(movements') > Len(movements) =>
         \E r \in Reqs :
           /\ pc[r] = "insMov"
           /\ pc'[r] = "selMov"
           /\ req[r].op \in {"storage:create", "movements:record"}
           /\ req[r].token \in DOMAIN issued
           /\ movements'[Len(movements')].actor = issued[req[r].token].name]_vars

\* The log holds a movement recorded from a payload that carried
\* actor "Ana", and its actor is the administrator who held the session.
C3_Witness ==
    \E i \in 1..Len(movements) :
      /\ movements[i].action = "Retirada"
      /\ movements[i].actor = "Administrador"
      /\ \E d \in MovementInputs : d.action = "Retirada" /\ d.actor = "Ana"

\* ---------------------------------------------------------------- C4
\* C4: no step removes or changes a movement: every row of the log is the
\* same after the step, and the log is no shorter.
C4_AppendOnly ==
    [][/\ Len(movements') >= Len(movements)
       /\ \A i \in 1..Len(movements) : movements'[i] = movements[i]]_vars

\* The process runs for the second time, migrate and ensureDefaultAdmin
\* have run again, and the log holds a movement of the first run and one
\* of the second.
C4_Witness ==
    /\ boots = 2
    /\ phase = "ready"
    /\ Len(movements) = 2
    /\ movements[1].actor # movements[2].actor

\* ---------------------------------------------------------------- C5
\* The answer of r carries a snapshot.
HasSnapshot(r) ==
    /\ resp[r] # <<>>
    /\ resp[r][1].success
    /\ req[r].op \in {"auth:login", "auth:session", "storage:create", "movements:record"}

\* C5: movements:list returns at most 25 rows, each recorded after the
\* row that follows it, and when the log is not empty the first row is the
\* movement recorded last, also when movements share a clock second.
C5_ListMostRecentFirst ==
    \A r \in Reqs :
      (resp[r] # <<>> /\ req[r].op = "movements:list" /\ resp[r][1].success) =>
        LET rows == resp[r][1].data[1]
        IN  /\ Len(rows) <= DefaultLimit
            /\ \A i, j \in 1..Len(rows) : i < j => rows[i].id > rows[j].id
            /\ movements # <<>> =>
                 /\ rows # <<>>
                 /\ rows[1] = movements[Len(movements)]

\* ---------------------------------------------------------------- C6
\* C6: the lastMovement of a snapshot is absent exactly when the log is
\* empty and is otherwise the movement recorded last; in the answer of
\* movements:record it is the movement that request recorded, so its
\* action is the action of the payload.
C6_LastMovementIsLatest ==
    \A r \in Reqs :
      HasSnapshot(r) =>
        LET data == resp[r][1].data[1]
            last == data.snapshot.lastMovement
        IN  /\ last = <<>> <=> movements = <<>>
            /\ movements # <<>> => last = <<movements[Len(movements)]>>
            /\ req[r].op = "movements:record" =>
                 /\ last = <<data.movement>>
                 /\ last[1].action = req[r].data.action

\* ---------------------------------------------------------------- C7
\* The snapshot of r runs its first or its second query in this step.
RunsCounters(r) == pc[r] = "snap1" /\ pc'[r] = "snap2"
RunsToday(r) == pc[r] = "snap2" /\ pc'[r] = "snap3"

\* What the first query of a storage:create and the return of a writer owe
\* to the request's own write, whatever the other request did meanwhile.
OwnUnitCounted(r) ==
    /\ (RunsCounters(r) /\ req[r].op = "storage:create") =>
         LET unit == loc[r].unit[1]
         IN  /\ loc'[r].totalUnits >= unit.id
             /\ loc'[r].unitsByType[unit.type] >=
                  Cardinality({i \in 1..unit.id : units[i].type = unit.type})
    /\ (Returns(r) /\ pc[r] = "snap3" /\ req[r].op = "storage:create") =>
         LET data == resp'[r][1].data[1]
         IN  /\ data.unit = loc[r].unit[1]
             /\ data.snapshot.totalUnits = loc[r].totalUnits
             /\ data.snapshot.unitsByType = loc[r].unitsByType
    /\ (Returns(r) /\ pc[r] = "snap3" /\ req[r].op = "movements:record") =>
         LET data == resp'[r][1].data[1]
         IN  /\ data.movement = loc[r].movement[1]
             /\ data.snapshot.movementsToday = loc[r].movementsToday
             /\ data.snapshot.lastMovement # <<>>
             /\ datetime(data.snapshot.lastMovement[1].created_at) >=
                  datetime(data.movement.created_at)

SummaryOf(snapshot, nu, nm) ==
    /\ snapshot.unitsByType = countersTemplate(SubSeq(units, 1, nu))
    /\ snapshot.totalUnits = nu
    /\ snapshot.lastMovement \in selectLastMovement(SubSeq(movements, 1, nm))
    /\ \E now \in 0..MaxClock :
         snapshot.movementsToday = countToday(SubSeq(movements, 1, nm), now)

\* C8: the snapshot a handler returns is the summary of one state the
\* store went through while snapshot ran.
C8_SnapshotOfOneState ==
    [][\A r \in Reqs :
         (Returns(r) /\ pc[r] = "snap3") =>
           \E p \in loc[r].seen : SummaryOf(resp'[r][1].data[1].snapshot, p[1], p[2])]_vars

\* ---------------------------------------------------------------- C9
\* C9: unitsByType has exactly the four keys PASTA, ENVELOPE, GAVETEIRO
\* and CAIXA, each with the number of units of that type in the ledger,
\* and totalUnits is the sum of the four.
C9_UnitsByType ==
    \A r \in Reqs :
      HasSnapshot(r) =>
        LET snapshot == resp[r][1].data[1].snapshot
            byType == snapshot.unitsByType
        IN  /\ DOMAIN byType = {"PASTA", "ENVELOPE", "GAVETEIRO", "CAIXA"}
            /\ \A ty \in DOMAIN byType :
                 byType[ty] = Cardinality({i \in 1..Len(units) : units[i].type = ty})
            /\ snapshot.totalUnits =
                 byType["PASTA"] + byType["ENVELOPE"] + byType["GAVETEIRO"] + byType["CAIXA"]

\* A snapshot taken with one PASTA and one GAVETEIRO in the ledger.
C9_Witness ==
    \E r \in Reqs :
      /\ HasSnapshot(r)
      /\ resp[r][1].data[1].snapshot.totalUnits = 2
      /\ resp[r][1].data[1].snapshot.unitsByType["PASTA"] = 1
      /\ resp[r][1].data[1].snapshot.unitsByType["GAVETEIRO"] = 1
      /\ resp[r][1].data[1].snapshot.unitsByType["CAIXA"] = 0

\* ---------------------------------------------------------------- C10
\* C10: movementsToday is the number of movements whose created_at falls
\* on the calendar day the host's wall clock shows when the count runs,
\* for every offset of the host from UTC.
C10_LocalToday ==
    [][\A r \in Reqs :
         RunsToday(r) =>
           loc'[r].movementsToday =
             Cardinality({i \in 1..Len(movements) :
                            LocalDate(movements[i].created_at, tz) = LocalDate(clock, tz)})]_vars

\* ---------------------------------------------------------------- C11
\* C11: storage:create answers with the row it inserted: its id, the
\* trimmed label, the type and section of the payload, occupancy 0 and the
\* capacity of the payload, 0 when it gave none; no later step changes a
\* row of the ledger; and storage:list returns every row of the ledger.
C11_CreateThenList ==
    [][\A r \in Reqs :
         /\ (Returns(r) /\ pc[r] = "snap3" /\ req[r].op = "storage:create") =>
              LET unit == resp'[r][1].data[1].unit
                  data == req[r].data
              IN  /\ unit.id \in 1..Len(units)
                  /\ unit = toStorageUnitRecord(units[unit.id])
                  /\ unit.label = trim(data.label)
                  /\ unit.type = data.type
                  /\ unit.section = data.section
                  /\ unit.occupancy = 0
                  /\ unit.capacity = IF data.capacity = <<>> THEN 0 ELSE data.capacity[1]
         /\ (Returns(r) /\ req[r].op = "storage:list" /\ resp'[r][1].success) =>
              LET rows == resp'[r][1].data[1]
              IN  \A i \in 1..Len(units) :
                    \E k \in 1..Len(rows) : rows[k] = toStorageUnitRecord(units[i])
         /\ Len(units') >= Len(units)
         /\ \A i \in 1..Len(units) : units'[i] = units[i]]_vars

\* storage:list answered, after a restart, with unit 1 created from label
\* " P1" without capacity and unit 2 created with section and capacity 3.
C11_Witness ==
    \E r \in Reqs :
      /\ resp[r] # <<>>
      /\ req[r].op = "storage:list"
      /\ resp[r][1].success
      /\ boots = 2
      /\ \E k, l \in 1..Len(resp[r][1].data[1]) :
           LET rows == resp[r][1].data[1]
           IN  /\ rows[k].id = 1
               /\ rows[k].label = <<"P", "1">>
               /\ rows[k].capacity = 0
               /\ rows[k].occupancy = 0
               /\ rows[l].id = 2
               /\ rows[l].section = "Sala 2"
               /\ rows[l].capacity = 3

\* ---------------------------------------------------------------- C12
\* C12: storage:list returns every unit of the ledger exactly once, and a
\* unit created later than another comes before it, also when both were
\* created at one clock instant.
C12_ListNewestFirst ==
    \A r \in Reqs :
      (resp[r] # <<>> /\ req[r].op = "storage:list" /\ resp[r][1].success) =>
        LET rows == resp[r][1].data[1]
        IN  /\ Len(rows) = Len(units)
            /\ \A i \in 1..Len(units) : \E k \in 1..Len(rows) : rows[k].id = i
            /\ \A i, j \in 1..Len(rows) : i < j => rows[i].id > rows[j].id

\* ---------------------------------------------------------------- C13
\* C13: the unit storage:create returns and the unit storage:list returns
\* later carry the metadata of the payload: null when the payload had
\* none, and otherwise an object with the same members, {} for {}.
C13_MetadataRoundTrip ==
    [][\A r \in Reqs :
         /\ (Returns(r) /\ pc[r] = "snap3" /\ req[r].op = "storage:create") =>
              resp'[r][1].data[1].unit.metadata = req[r].data.metadata
         /\ (Returns(r) /\ req[r].op = "storage:list" /\ resp'[r][1].success) =>
              LET rows == resp'[r][1].data[1]
              IN  \A k \in 1..Len(rows) :
                    \E data \in MetadataInputs : rows[k].metadata = data.metadata]_vars

\* ---------------------------------------------------------------- C14
\* text begins with prefix.
StartsWith(text, prefix) ==
    Len(text) >= Len(prefix) /\ SubSeq(text, 1, Len(prefix)) = prefix

\* The rows of us the stages of C14 find for identifier I, trimmed and in
\* lower case: (a) the rows whose login is I but for case; failing that,
\* (b) when I has an '@', the rows whose login is the part of I before it;
\* failing that, (c) when I has no '@', the rows whose login is I, an '@',
\* and anything.
StageRows(us, I) ==
    LET stageA == {i \in 1..Len(us) : toLowerCase(us[i].login) = I}
        stageB == IF includesAt(I)
                  THEN {i \in 1..Len(us) : toLowerCase(us[i].login) = splitAt0(I)}
                  ELSE {}
        stageC == IF ~includesAt(I)
                  THEN {i \in 1..Len(us) : StartsWith(toLowerCase(us[i].login), I \o <<"@">>)}
                  ELSE {}
    IN  IF stageA # {} THEN stageA ELSE IF stageB # {} THEN stageB ELSE stageC

\* C14: verifyLogin finds its credential by the stages (a), (b), (c) in
\* that order, the first stage that finds one decides, and the result is
\* the profile of the credential found when the password matches its hash
\* and absent otherwise.
C14_StagedLookup ==
    phase = "ready" =>
      \A data \in AuthInputs :
        LET I == toLowerCase(trim(data.login))
            rows == StageRows(users, I)
        IN  I # <<>> =>
              verifyLogin(users, data.login, data.password) =
                IF rows = {} THEN {<<>>}
                ELSE { IF bcryptCompare(data.password, users[i].password_hash)
                       THEN <<[id |-> users[i].id, name |-> users[i].name,
                               login |-> users[i].login, role |-> users[i].role]>>
                       ELSE <<>> : i \in rows }

\* ---------------------------------------------------------------- C15
\* The payload of the auth:login that starts in this step.
LoginStarts(r) == Starts(r) /\ req'[r].op = "auth:login" /\ loginSchema(req'[r].data)

\* C15: an auth:login with a schema-valid payload that fails, whether no
\* credential matches the identifier or the one that matches has another
\* password, is answered with the one failure envelope 'Credenciais
\* invalidas' and leaves the session table as it was; and it does fail
\* when every credential the lookup may find is absent or has another
\* password.
C15_UniformFailure ==
    [][\A r \in Reqs :
         LoginStarts(r) =>
           LET data == req'[r].data
               found == findUser(users, toLowerCase(trim(data.login)))
           IN  /\ resp'[r] # <<>> =>
                    /\ resp'[r] = <<failure(InvalidCredentials)>>
                    /\ UNCHANGED <<sessions, nextToken>>
               /\ (\A user \in found :
                     \/ user = <<>>
                     \/ ~bcryptCompare(data.password, user[1].password_hash)) =>
                    resp'[r] # <<>>]_vars

\* auth:login was refused for an identifier that matches a credential,
\* with another password, in a store where another identifier of the
\* inputs matches none.
C15_Witness ==
    \E r \in Reqs :
      /\ resp[r] = <<failure(InvalidCredentials)>>
      /\ req[r].op = "auth:login"
      /\ findUser(users, toLowerCase(trim(req[r].data.login))) # {<<>>}
      /\ \E other \in AuthInputs :
           /\ loginSchema(other)
           /\ toLowerCase(trim(other.login)) # <<>>
           /\ findUser(users, toLowerCase(trim(other.login))) = {<<>>}

\* ---------------------------------------------------------------- C16
\* The rows of us whose login is the default login, or the default login,
\* an '@', and anything.
DefaultRows(us) ==
    LET normalized == toLowerCase(trim(defaultLogin))
    IN  {i \in 1..Len(us) :
           \/ toLowerCase(us[i].login) = normalized
           \/ StartsWith(toLowerCase(us[i].login), normalized \o <<"@">>)}

\* C16: whatever the store holds when the process starts, ensureDefaultAdmin
\* completes after migrate, exactly one credential then has the default
\* login, verifyLogin with the default login and password returns a
\* profile, and a row is added only when no credential matched the default
\* login before.
C16_DefaultAdminPresent ==
    phase = "off" =>
      LET st == migrate([schema |-> schema, users |-> users,
                         units |-> units, movements |-> movements])
      IN  \A out \in ensureDefaultAdmin(st.users, defaultLogin, defaultPassword, boots + 1) :
            /\ out.ok
            /\ Cardinality({i \in 1..Len(out.users) :
                              out.users[i].login = toLowerCase(trim(defaultLogin))}) = 1
            /\ <<>> \notin verifyLogin(out.users, defaultLogin, defaultPassword)
            /\ Len(out.users) = IF DefaultRows(st.users) = {}
                                THEN Len(st.users) + 1 ELSE Len(st.users)

\* ---------------------------------------------------------------- C17
\* C17: a start inserts a user row when the users table is empty and
\* inserts none when the table holds a user.
C17_FirstUserOnlyWhenEmpty ==
    [][(phase = "off" /\ phase' = "ready") =>
         Len(users') = IF users = <<>> THEN 1 ELSE Len(users)]_vars

\* ---------------------------------------------------------------- C18
\* C18: in every state the store goes through, one run of migrate leaves
\* the three tables, a users table with a login column and no email
\* column, and every row of every table as it was; it renames exactly when
\* the users table has email and no login; a second run changes nothing;
\* and the store of a process that serves requests is one migrate leaves
\* as it is.
C18_MigrateIdempotent ==
    LET st == [schema |-> schema, users |-> users, units |-> units, movements |-> movements]
        once == migrate(st)
        legacy == "email" \in schema.users /\ "login" \notin schema.users
    IN  /\ migrate(once) = once
        /\ once.users = users
        /\ once.units = units
        /\ once.movements = movements
        /\ once.schema.storage_units
        /\ once.schema.movements
        /\ once.schema.users =
             IF schema.users = {} THEN CurrentUserCols
             ELSE IF legacy THEN (schema.users \ {"email"}) \cup {"login"}
             ELSE schema.users
        /\ "login" \in once.schema.users
        /\ "email" \notin once.schema.users
        /\ phase = "ready" => once.schema = schema

\* The second run of the process has migrated a store that was legacy
\* before the first: the column is login, the legacy user is still there,
\* and so is a movement of the first run.
C18_Witness ==
    /\ boots = 2
    /\ phase = "ready"
    /\ "login" \in schema.users
    /\ Len(users) = 2
    /\ users[1].login = <<"a", "n", "a", "@", "x">>
    /\ movements # <<>>

\* ---------------------------------------------------------------- C19
\* C19: a handler starts only in a process whose bootstrap has resolved;
\* the process gets there only from its start, with the store migrated and
\* a credential under the default login; a process that is not there has
\* no request in flight, no answer pending and no session; and a start
\* that aborted serves nothing until the process is started anew.
C19_ServedOnlyAfterStartup ==
    [][/\ \A r \in Reqs : Starts(r) => phase = "ready"
       /\ (phase # "ready" /\ phase' = "ready") =>
            /\ phase = "off"
            /\ schema' = migrate([schema |-> schema, users |-> users,
                                  units |-> units, movements |-> movements]).schema
            /\ schema'.storage_units /\ schema'.movements /\ "login" \in schema'.users
            /\ \E i \in 1..Len(users') : users'[i].login = toLowerCase(trim(defaultLogin))
       /\ phase' # "ready" =>
            /\ \A r \in Reqs : pc'[r] = "idle" /\ req'[r] = NoReq /\ resp'[r] = <<>>
            /\ sessions' = <<>>
       /\ phase = "aborted" => phase' \in {"aborted", "off"}]_vars

\* The first run of the process served a login; the start of the second
\* run aborted, and nothing is in flight.
C19_Witness ==
    /\ phase = "aborted"
    /\ boots = 2
    /\ nextToken > 1
    /\ \A r \in Reqs : pc[r] = "idle" /\ req[r] = NoReq

\* ---------------------------------------------------------------- C20
\* The payload of request q fails the schema of its channel.
Invalid(q) ==
    CASE q.op = "auth:login" -> ~loginSchema(q.data)
      [] q.op = "storage:create" -> ~tokenSchema(q.token) \/ storageSchema(q.data) = <<>>
      [] q.op = "movements:record" -> ~tokenSchema(q.token) \/ movementSchema(q.data) = <<>>
      [] OTHER -> ~tokenSchema(q.token)

\* e is a success with data (where the channel owes data) and no error, or
\* a failure with an error message and no data.
Envelope(e, owesData) ==
    IF e.success
    THEN e.error = NULL /\ (owesData => e.data # <<>>)
    ELSE e.error # NULL /\ e.data = <<>>

\* What a step owes to the channels outside `exempt`: the answer is an
\* envelope; a payload that fails validation or names no session is
\* answered at once with a failure; success comes only from the statement
\* that completes the handler, so no rejected statement yields it; and a
\* request in flight always has a next step.
Answers(exempt) ==
    \A r \in Reqs :
      /\ Returns(r) => Envelope(resp'[r][1], req'[r].op \notin exempt)
      /\ (/\ Starts(r)
          /\ req'[r].op \notin exempt
          /\ \/ Invalid(req'[r])
             \/ req'[r].op \in Protected /\ req'[r].token \notin DOMAIN sessions) =>
           resp'[r] # <<>> /\ ~resp'[r][1].success
      /\ (Returns(r) /\ resp'[r][1].success /\ req'[r].op \notin exempt) =>
           pc[r] \in {"snap3", "listUnits", "listMovements"}
      /\ (pc[r] # "idle" \/ resp[r] # <<>>) => ENABLED Step(r)

\* C20 as stated: all seven channels answer with success and data or with
\* failure and a message, and never with success when validation,
\* authentication or the store failed.
C20_UniformEnvelope == [][Answers({})]_vars

\* C20, amended: that holds of the six channels other than auth:logout;
\* auth:logout answers { success: true } without data, whatever the
\* payload.
C20_UniformEnvelopeButLogout ==
    [][/\ Answers({"auth:logout"})
       /\ \A r \in Reqs :
            (Returns(r) /\ req'[r].op = "auth:logout") =>
              resp'[r] = <<[success |-> TRUE, error |-> NULL, data |-> <<>>]>>]_vars

\* storage:create was answered with the failure of the store after its
\* unit was inserted and before its movement was.
C20_Witness ==
    \E r \in Reqs :
      /\ resp[r] = <<failure(StoreError)>>
      /\ req[r].op = "storage:create"
      /\ Len(units) = 1
      /\ movements = <<>>

\* ---------------------------------------------------------------- C21
\* The profile of a row of users.
ProfileOf(row) == [id |-> row.id, name |-> row.name, login |-> row.login, role |-> row.role]

\* C21: each token of the session table maps to one session that carries
\* that token; a session enters the table only in the step of an
\* auth:login whose password compares equal to the hash of a row of users,
\* with the profile of that row and a token no login received before; and
\* no step alters a session the table keeps.
C21_OneSessionPerToken ==
    [][/\ \A t \in DOMAIN sessions : sessions[t].token = t /\ t < nextToken
       /\ \A t \in DOMAIN sessions' :
            \/ t \in DOMAIN sessions /\ sessions'[t] = sessions[t]
            \/ /\ t \notin DOMAIN sessions
               /\ t = nextToken
               /\ nextToken' = nextToken + 1
               /\ sessions'[t].token = t
               /\ DOMAIN sessions \subseteq DOMAIN sessions'
               /\ \E r \in Reqs :
                    /\ Starts(r)
                    /\ req'[r].op = "auth:login"
                    /\ loginSchema(req'[r].data)
                    /\ \E i \in 1..Len(users) :
                         /\ bcryptCompare(req'[r].data.password, users[i].password_hash)
                         /\ sessions'[t].profile = ProfileOf(users[i])]_vars

\* Two logins of one user hold two sessions under different tokens.
C21_Witness ==
    /\ DOMAIN sessions = {1, 2}
    /\ sessions[1].profile = sessions[2].profile
    /\ sessions[1].token = 1
    /\ sessions[2].token = 2

\* ---------------------------------------------------------------- C23
\* C23: no step of a movements:record request changes a storage unit,
\* whatever its from_unit and to_unit name; a step that changes the ledger
\* appends one unit and keeps the others; and every unit has occupancy 0
\* and updated_at equal to created_at.
C23_LedgerUntouched ==
    [][/\ \A r \in Reqs :
            (req'[r].op = "movements:record" \/ req[r].op = "movements:record") =>
              units' = units
       /\ units' # units =>
            /\ Len(units') = Len(units) + 1
            /\ SubSeq(units', 1, Len(units)) = units
       /\ \A i \in 1..Len(units') :
            units'[i].occupancy = 0 /\ units'[i].updated_at = units'[i].created_at]_vars

\* A movement naming unit G1 was recorded after G1 was created with
\* capacity 3, at a later instant.
C23_Witness ==
    /\ \E i \in 1..Len(units) :
         /\ units[i].label = <<"G", "1">>
         /\ units[i].capacity = 3
         /\ \E j \in 1..Len(movements) :
              /\ movements[j].from_unit = "G1"
              /\ movements[j].created_at > units[i].created_at
    /\ \E r \in Reqs : req[r].op = "movements:record" /\ resp[r] # <<>> /\ resp[r][1].success

\* ---------------------------------------------------------------- C24
\* C24: auth:logout answers { success: true } for every payload (a token
\* with a session, one without, one revoked before, a malformed one); it
\* removes the session of that token and no other, and leaves users,
\* ledger and log as they were; a second logout of the token changes
\* nothing more.
C24_LogoutFrame ==
    [][\A r \in Reqs :
         (Starts(r) /\ req'[r].op = "auth:logout") =>
           /\ resp'[r] = <<[success |-> TRUE, error |-> NULL, data |-> <<>>]>>
           /\ DOMAIN sessions' = DOMAIN sessions \ {req'[r].token}
           /\ \A t \in DOMAIN sessions' : sessions'[t] = sessions[t]
           /\ sessions_revoke(sessions', req'[r].token) = sessions'
           /\ <<schema, users, units, movements>>' = <<schema, users, units, movements>>]_vars

\* A logout of token 1 has been answered, and the session of token 2 of the
\* same user is still in the table.
C24_Witness ==
    /\ 1 \in loggedOut
    /\ DOMAIN sessions = {2}
    /\ 1 \in DOMAIN issued
    /\ sessions[2].profile = issued[1]
    /\ \E r \in Reqs :
         /\ req[r].op = "auth:logout"
         /\ req[r].token = 1
         /\ resp[r] # <<>>

\* ---------------------------------------------------------------- C25
\* Requests whose movement is written and whose answer is yet to come.
Written ==
    Cardinality({r \in Reqs : /\ pc[r] \in {"selMov", "snap1", "snap2", "snap3"}
                              /\ req[r].op \in {"storage:create", "movements:record"}})

\* C25: the log holds one movement for each storage:create and each
\* movements:record answered with success, and one for each such request
\* past its INSERT; the movement of a storage:create answered with success
\* is in the log with action 'Cadastro de unidade', a note naming the
\* label and the name of the session's profile as actor.
C25_OneMovementPerCreate ==
    [][/\ Len(movements') = done'.creates + done'.records + Written'
       /\ \A r \in Reqs :
            (Returns(r) /\ resp'[r][1].success /\ req[r].op = "storage:create") =>
              /\ loc[r].movement # <<>>
              /\ \E i \in 1..Len(movements) : movements[i] = loc[r].movement[1]
              /\ loc[r].movement[1].action = "Cadastro de unidade"
              /\ loc[r].movement[1].note = unidadeCriada(req[r].data.label)
              /\ loc[r].movement[1].actor = loc[r].session[1].profile.name
              /\ loc[r].session[1].token = req[r].token
              /\ Len(movements) = done.creates + done.records + Written]_vars

\* One storage:create and one movements:record were answered with success
\* and nothing is in flight.
C25_Witness ==
    /\ done = [creates |-> 1, records |-> 1]
    /\ Len(movements) = 2
    /\ \A r \in Reqs : pc[r] = "idle" /\ resp[r] = <<>>

\* ---------------------------------------------------------------- C26
\* C26: a storage:create or movements:record answered with a failure has
\* left ledger and log as they were when the request arrived.
C26_FailureChangesNothing ==
    [][\A r \in Reqs :
         (/\ Returns(r)
          /\ ~resp'[r][1].success
          /\ req'[r].op \in {"storage:create", "movements:record"}) =>
           /\ units' = units /\ movements' = movements
           /\ pc[r] # "idle" => <<Len(units), Len(movements)>> = loc[r].before]_vars

\* ---------------------------------------------------------------- C27
\* C27: no INSERT into the ledger or the log is executed for a request
\* whose token's auth:logout has returned.
C27_NoWriteAfterLogout ==
    [][\A r \in Reqs :
         (/\ pc[r] \in {"insUnit", "insMov"}
          /\ pc'[r] \in {"selUnit", "selMov"}
          /\ (units' # units \/ movements' # movements)) =>
           req[r].token \notin loggedOut]_vars

\* ---------------------------------------------------------------- C28
\* C28: an auth:login is given a session only for a credential whose login
\* L, in lower case, and the identifier I, trimmed and in lower case, are
\* related in one of three ways: L = I; I has an '@' and L is the part of
\* I before the first; I has no '@' and L begins with I and an '@'.  So a
\* '%' or '_' in I stands for itself, and an empty I matches nothing.
C28_MatchesThreeWays ==
    [][\A r \in Reqs :
         (LoginStarts(r) /\ nextToken' # nextToken) =>
           LET I == toLowerCase(trim(req'[r].data.login))
               L == toLowerCase(sessions'[nextToken].profile.login)
           IN  /\ I # <<>>
               /\ \/ L = I
                  \/ includesAt(I) /\ L = splitAt0(I)
                  \/ ~includesAt(I) /\ StartsWith(L, I \o <<"@">>)]_vars

\* ---------------------------------------------------------------- C29
ProfileFields == {"id", "name", "login", "role"}

\* C29: the profile verifyLogin returns, the profile of every session and
\* the profile in every answer of auth:login and auth:session have the
\* fields id, name, login and role and no other; the answer has token,
\* profile and snapshot and no other; and every stored hash is a bcrypt
\* digest of cost BcryptCost, not the password.
C29_HashStaysInStore ==
    [][/\ \A r \in Reqs :
            LoginStarts(r) =>
              \A result \in verifyLogin(users, req'[r].data.login, req'[r].data.password) :
                result # <<>> => DOMAIN result[1] = ProfileFields
       /\ \A t \in DOMAIN sessions' : DOMAIN sessions'[t].profile = ProfileFields
       /\ \A r \in Reqs :
            (/\ resp'[r] # <<>>
             /\ req'[r].op \in {"auth:login", "auth:session"}
             /\ resp'[r][1].success) =>
              /\ DOMAIN resp'[r][1].data[1] = {"token", "profile", "snapshot"}
              /\ DOMAIN resp'[r][1].data[1].profile = ProfileFields
              /\ resp'[r][1].data[1].token \in 1..MaxTokens
       /\ \A us \in {users, users'} :
            \A i \in 1..Len(us) :
              /\ DOMAIN us[i].password_hash = {"cost", "salt", "digest"}
              /\ us[i].password_hash.cost = BcryptCost
              /\ \E password \in {defaultPassword, <<"a", "n", "a", "1">>,
                                  <<"a", "n", "a", "2">>} :
                   /\ bcryptCompare(password, us[i].password_hash)
                   /\ us[i].password_hash.digest # password]_vars

\* auth:session was answered with the profile of a session a login of the
\* default administrator created.
C29_Witness ==
    \E r \in Reqs :
      /\ resp[r] # <<>>
      /\ req[r].op = "auth:session"
      /\ resp[r][1].success
      /\ resp[r][1].data[1].profile.login = defaultLogin
      /\ req[r].token \in DOMAIN issued

\* ---------------------------------------------------------------- C30
\* C30: once the logout handler of the page has finished, and until a
\* login succeeds, the page holds no token, no profile, no snapshot, no
\* units and no movements.
C30_LoggedOutHoldsNothing ==
    (state # <<>> /\ state[1].left) =>
      /\ state[1].token = 0
      /\ state[1].profile = <<>>
      /\ state[1].snapshot = <<>>
      /\ state[1].storage = <<>>
      /\ state[1].movements = <<>>

\* ---------------------------------------------------------------- C22
\* C22: a restart empties the session table and keeps ledger, log and the
\* page's stored token; the table is empty until the start has finished
\* and a token enters it only as a new one; so a request with a token of
\* an earlier run is answered with a failure, as is the resume the page
\* sends with its stored token; on that failure the page drops its stored
\* token, its token and its profile and locks its forms; and storage:list
\* and movements:list answer with every unit and movement of the store.
C22_RestartEndsSessions ==
    [][/\ (phase # "off" /\ phase' = "off") =>
            /\ sessions' = <<>>
            /\ units' = units /\ movements' = movements
            /\ localStorage' = localStorage
       /\ phase' # "ready" => sessions' = <<>>
       /\ phase = "off" => units' = units /\ movements' = movements
       /\ \A t \in DOMAIN sessions' : t \in DOMAIN sessions \/ t = nextToken
       /\ nextToken' >= nextToken
       /\ \A r \in Reqs :
            /\ (Starts(r) /\ req'[r].op \in Protected
                  /\ req'[r].token \notin DOMAIN sessions) =>
                 resp'[r] # <<>> /\ ~resp'[r][1].success
            /\ (Starts(r) /\ req'[r].op = "auth:session") =>
                 /\ req'[r].token = localStorage
                 /\ resp'[r] = <<failure(LoginAgain)>>
            /\ (/\ resp[r] # <<>> /\ resp'[r] = <<>> /\ state' # <<>>
                /\ req[r].op = "auth:session"
                /\ ~resp[r][1].success) =>
                 /\ localStorage' = 0
                 /\ state'[1].token = 0
                 /\ state'[1].profile = <<>>
                 /\ state'[1].locked
            /\ (Returns(r) /\ req'[r].op = "storage:list" /\ resp'[r][1].success) =>
                 {row.id : row \in {resp'[r][1].data[1][i] : i \in 1..Len(resp'[r][1].data[1])}}
                   = 1..Len(units)
            /\ (Returns(r) /\ req'[r].op = "movements:list" /\ resp'[r][1].success) =>
                 {row.id : row \in {resp'[r][1].data[1][i] : i \in 1..Len(resp'[r][1].data[1])}}
                   = 1..Len(movements)]_vars

\* In the second run the page resumed with the token it had stored in the
\* first and was answered with a failure, while the unit written in the
\* first run is in the store.
C22_Witness ==
    /\ boots = 2
    /\ Len(units) = 1
    /\ localStorage # 0
    /\ \E r \in Reqs :
         /\ req[r].op = "auth:session"
         /\ req[r].token = localStorage
         /\ resp[r] = <<failure(LoginAgain)>>

====
